---- MODULE Spec2Model ----
(***************************************************************************)
(* A model of the mindmap store (zustand store useMindMapStore) and of the *)
(* pure tree/graph transformations of lib/dataTransform.ts.                *)
(*                                                                         *)
(* A HierarchicalNode is a record [id, label, type, summary, details] with *)
(* an optional field children (a sequence of HierarchicalNodes); a         *)
(* MindMapNode is [id, type, position, data]; a MindMapEdge is             *)
(* [id, source, target, type, animated].  The store's set(partial) is a    *)
(* record update of the store state, get() is the current store state.     *)
(***************************************************************************)
EXTENDS Integers, Sequences, FiniteSets, TLC

VARIABLES maps, activeMapId, nodes, edges, selectedNodeId, hierarchicalData,
          collapsedNodeIds, layoutMode, drillStack, currentDrillNodeId,
          now, steps, lastOp, heap

storeVars == <<maps, activeMapId, nodes, edges, selectedNodeId, hierarchicalData,
               collapsedNodeIds, layoutMode, drillStack, currentDrillNodeId>>

vars == <<maps, activeMapId, nodes, edges, selectedNodeId, hierarchicalData,
          collapsedNodeIds, layoutMode, drillStack, currentDrillNodeId,
          now, steps, lastOp, heap>>

(***************************************************************************)
(* Bounds of the model.                                                    *)
(***************************************************************************)
\* How many operations a run holds.
MaxSteps == 4
\* The largest tree of the pure-function specification.
MaxTreeSize == 3

(***************************************************************************)
(* JavaScript values.                                                      *)
(***************************************************************************)
\* null (selectedNodeId, currentDrillNodeId, parentId, hierarchicalData)
Null == "null"

\* hierarchicalData: null
NoData == [null |-> TRUE]

\* a || b on strings: the empty string and an absent field are falsy
OrElse(rec, f, default) ==
    IF f \in DOMAIN rec /\ rec[f] # "" THEN rec[f] ELSE default

\* { ...a, ...b }
Spread(a, b) ==
    [f \in DOMAIN a \cup DOMAIN b |-> IF f \in DOMAIN b THEN b[f] ELSE a[f]]

\* node.children, where an absent children field reads as undefined
HasChildrenField(node) == "children" \in DOMAIN node

Children(node) == IF HasChildrenField(node) THEN node.children ELSE <<>>

Range(s) == {s[i] : i \in 1..Len(s)}

\* A map record's collapsedNodeIds is a Set, or after a load from
\* localStorage an array: the two forms of the value
JsSet(ids) == [set |-> ids]

JsArray(list) == [array |-> list]

\* the Set that switchMap and the first load make of a record's collapsedNodeIds
SetOf(value) ==
    IF "set" \in DOMAIN value THEN value.set
    ELSE IF "array" \in DOMAIN value THEN Range(value.array)
    ELSE {}

(***************************************************************************)
(* lib/dataTransform.ts                                                    *)
(***************************************************************************)
\* LAYOUT_CONFIG.radialStep
RadialStep == 350

\* Faulty variant: every node at depth 0.
FlatNodeOf_DepthZero(rootNode, depth) ==
    [id       |-> rootNode.id,
     type     |-> "mindmapNode",
     position |-> IF "position" \in DOMAIN rootNode THEN rootNode.position
                  ELSE [x |-> 0, y |-> 0],
     data     |-> [label       |-> rootNode.label,
                   nodeType    |-> rootNode.type,
                   summary     |-> rootNode.summary,
                   details     |-> rootNode.details,
                   depth       |-> 0,
                   hasChildren |-> HasChildrenField(rootNode) /\ Len(rootNode.children) > 0,
                   isExpanded  |-> TRUE,
                   childCount  |-> Len(Children(rootNode))]]

\* The MindMapNode flattenHierarchy creates for rootNode.
FlatNodeOf(rootNode, depth) ==
    [id       |-> rootNode.id,
     type     |-> "mindmapNode",
     position |-> IF "position" \in DOMAIN rootNode THEN rootNode.position
                  ELSE [x |-> 0, y |-> 0],
     data     |-> [label       |-> rootNode.label,
                   nodeType    |-> rootNode.type,
                   summary     |-> rootNode.summary,
                   details     |-> rootNode.details,
                   depth       |-> depth,
                   hasChildren |-> HasChildrenField(rootNode) /\ Len(rootNode.children) > 0,
                   isExpanded  |-> TRUE,
                   childCount  |-> Len(Children(rootNode))]]

\* Faulty variant: the edge runs from the child to the parent.
FlatEdgeOf_Reversed(parentId, rootNode) ==
    [id       |-> "e-" \o parentId \o "-" \o rootNode.id,
     source   |-> rootNode.id,
     target   |-> parentId,
     type     |-> "step",
     animated |-> FALSE]

FlatEdgeOf(parentId, rootNode) ==
    [id       |-> "e-" \o parentId \o "-" \o rootNode.id,
     source   |-> parentId,
     target   |-> rootNode.id,
     type     |-> "step",
     animated |-> FALSE]

\* Faulty variant: the children are visited from the last to the first.
RECURSIVE flattenHierarchy_LastChildFirst(_, _, _)
flattenHierarchy_LastChildFirst(rootNode, depth, parentId) ==
    LET kids == Children(rootNode)
        acc[i \in 0..Len(kids)] ==
            IF i = 0
            THEN [nodes |-> <<FlatNodeOf(rootNode, depth)>>,
                  edges |-> IF parentId # Null
                            THEN <<FlatEdgeOf(parentId, rootNode)>> ELSE <<>>]
            ELSE LET childResult ==
                         flattenHierarchy_LastChildFirst(kids[Len(kids) + 1 - i],
                                                         depth + 1, rootNode.id)
                 IN  [nodes |-> acc[i - 1].nodes \o childResult.nodes,
                      edges |-> acc[i - 1].edges \o childResult.edges]
    IN  acc[Len(kids)]

RECURSIVE flattenHierarchy(_, _, _)
flattenHierarchy(rootNode, depth, parentId) ==
    LET kids == Children(rootNode)
        \* the result after the first i children have been processed
        acc[i \in 0..Len(kids)] ==
            IF i = 0
            THEN [nodes |-> <<FlatNodeOf(rootNode, depth)>>,
                  edges |-> IF parentId # Null
                            THEN <<FlatEdgeOf(parentId, rootNode)>> ELSE <<>>]
            ELSE LET childResult == flattenHierarchy(kids[i], depth + 1, rootNode.id)
                 IN  [nodes |-> acc[i - 1].nodes \o childResult.nodes,
                      edges |-> acc[i - 1].edges \o childResult.edges]
    IN  acc[Len(kids)]

\* flattenHierarchy throws a TypeError at rootNode.id when it reaches a node
\* that is null
RECURSIVE flattenThrows(_)
flattenThrows(rootNode) ==
    \/ rootNode = NoData
    \/ \E i \in 1..Len(Children(rootNode)) : flattenThrows(Children(rootNode)[i])

\* childrenMap of filterCollapsedNodes: the targets of the edges out of nodeId
ChildrenMap(es, nodeId) == {es[i].target : i \in {j \in 1..Len(es) : es[j].source = nodeId}}

\* addDescendants(nodeId): the ids the walk adds to hiddenNodeIds.  The walk
\* recurses once per edge it follows; fuel is the depth the call stack has
\* left, and a walk deeper than the number of edges is on a cycle.
RECURSIVE addDescendants(_, _, _)
addDescendants(es, nodeId, fuel) ==
    IF fuel = 0 THEN {}
    ELSE LET children == ChildrenMap(es, nodeId)
         IN  children \cup UNION {addDescendants(es, childId, fuel - 1) : childId \in children}

\* whether addDescendants(nodeId) recurses without end (a cycle of ids)
RECURSIVE WalkOverflows(_, _, _)
WalkOverflows(es, nodeId, fuel) ==
    IF fuel = 0 THEN ChildrenMap(es, nodeId) # {}
    ELSE \E childId \in ChildrenMap(es, nodeId) : WalkOverflows(es, childId, fuel - 1)

\* Faulty variant: only the children of a collapsed node are hidden.
HiddenNodeIds_ChildrenOnly(es, collapsed) ==
    UNION {ChildrenMap(es, nodeId) : nodeId \in collapsed}

HiddenNodeIds(es, collapsed) ==
    UNION {addDescendants(es, nodeId, Len(es) + 1) : nodeId \in collapsed}

\* Faulty variant: the hidden nodes are dropped, their edges are kept.
filterCollapsedNodes_KeepsEdges(ns, es, collapsed) ==
    LET hiddenNodeIds == HiddenNodeIds(es, collapsed)
        VisibleNode(node) == node.id \notin hiddenNodeIds
    IN  [nodes |-> SelectSeq(ns, VisibleNode), edges |-> es]

filterCollapsedNodes(ns, es, collapsed) ==
    IF collapsed = {} THEN [nodes |-> ns, edges |-> es]
    ELSE LET hiddenNodeIds == HiddenNodeIds(es, collapsed)
             VisibleNode(node) == node.id \notin hiddenNodeIds
             VisibleEdge(edge) == edge.source \notin hiddenNodeIds
                                  /\ edge.target \notin hiddenNodeIds
         IN  [nodes |-> SelectSeq(ns, VisibleNode), edges |-> SelectSeq(es, VisibleEdge)]

RECURSIVE updateHierarchicalData(_, _, _)
updateHierarchicalData(data, nodeId, updates) ==
    IF data.id = nodeId THEN Spread(data, updates)
    ELSE IF HasChildrenField(data)
    THEN [data EXCEPT !.children =
              [i \in 1..Len(data.children) |->
                  updateHierarchicalData(data.children[i], nodeId, updates)]]
    ELSE data

RECURSIVE addNodeToHierarchy(_, _, _)
addNodeToHierarchy(data, parentId, newNode) ==
    IF data.id = parentId
    THEN Spread(data, [children |-> Children(data) \o <<newNode>>])
    ELSE IF HasChildrenField(data)
    THEN [data EXCEPT !.children =
              [i \in 1..Len(data.children) |->
                  addNodeToHierarchy(data.children[i], parentId, newNode)]]
    ELSE data

(***************************************************************************)
(* The layout engines.  Each returns the nodes it is given, in the same    *)
(* order, with position replaced.  dagre and d3-force are libraries: the   *)
(* position either assigns is kept as a term naming the engine and what    *)
(* the engine was given (the node's index, the numbers of nodes and        *)
(* edges).  The radial engine is the repository's own and is computed: a   *)
(* position is kept in polar form, the radius and the mid-angle of the     *)
(* node's sector as a fraction <<num, den>> of the full turn.              *)
(***************************************************************************)
calculateLayout(ns, es) ==
    [i \in 1..Len(ns) |->
        [ns[i] EXCEPT !.position =
            [engine |-> "dagre", index |-> i, nodes |-> Len(ns), edges |-> Len(es)]]]

calculateGraphLayout(ns, es) ==
    [i \in 1..Len(ns) |->
        [ns[i] EXCEPT !.position =
            [engine |-> "d3-force", index |-> i, nodes |-> Len(ns), edges |-> Len(es)]]]

\* Fractions <<num, den>>, den > 0, in lowest terms.
RECURSIVE Gcd(_, _)
Gcd(a, b) == IF b = 0 THEN a ELSE Gcd(b, a % b)

Frac(num, den) == LET g == Gcd(num, den) IN IF g = 0 THEN <<0, 1>> ELSE <<num \div g, den \div g>>

FracAdd(p, q) == Frac(p[1] * q[2] + q[1] * p[2], p[2] * q[2])

FracSub(p, q) == Frac(p[1] * q[2] - q[1] * p[2], p[2] * q[2])

FracMulInt(p, k) == Frac(p[1] * k, p[2])

FracDivInt(p, k) == Frac(p[1], p[2] * k)

\* The ids of the model in the order of JavaScript's default string sort
\* (by UTF-16 code unit: capitals before small letters).
IdOrder ==
    <<"A", "B", "C", "I", "J", "R", "ghost">>
    \o [i \in 1..9 |-> "node-" \o ToString(i)]
    \o <<"root">>

IdRank(id) == CHOOSE i \in 1..Len(IdOrder) : IdOrder[i] = id

\* children.sort(): insertion sort of a sequence of ids by IdRank
RECURSIVE SortIds(_)
SortIds(ids) ==
    IF ids = <<>> THEN <<>>
    ELSE LET rest == SortIds(Tail(ids))
             h == Head(ids)
             Before(x) == IdRank(x) < IdRank(h)
             NotBefore(x) == ~(IdRank(x) < IdRank(h))
         IN  SelectSeq(rest, Before) \o <<h>> \o SelectSeq(rest, NotBefore)

\* childrenMap of calculateRadialLayout: the targets of the edges out of
\* parentId, in edge order
RadialChildren(es, parentId) ==
    LET FromParent(edge) == edge.source = parentId
        out == SelectSeq(es, FromParent)
    IN  [i \in 1..Len(out) |-> out[i].target]

\* Faulty variant: the children are taken in edge order, unsorted.
RECURSIVE positionChildren_EdgeOrder(_, _, _, _, _, _)
positionChildren_EdgeOrder(es, parentId, startAngle, endAngle, depth, fuel) ==
    LET children == RadialChildren(es, parentId)
        anglePerChild == FracDivInt(FracSub(endAngle, startAngle), Len(children))
        childStart(index) == FracAdd(startAngle, FracMulInt(anglePerChild, index))
        sets[k \in 0..Len(children)] ==
            IF k = 0 THEN <<>>
            ELSE sets[k - 1]
                 \o <<[id  |-> children[k],
                       pos |-> [engine |-> "radial",
                                r      |-> depth * RadialStep,
                                turn   |-> FracAdd(childStart(k - 1),
                                                   FracDivInt(anglePerChild, 2))]]>>
                 \o positionChildren_EdgeOrder(es, children[k], childStart(k - 1),
                                               FracAdd(childStart(k - 1), anglePerChild),
                                               depth + 1, fuel - 1)
    IN  IF Len(children) = 0 \/ fuel = 0 THEN <<>> ELSE sets[Len(children)]

\* positionChildren: the sequence of positions.set(childId, pos) calls, in
\* the order the code makes them.  fuel bounds the depth of the recursion.
RECURSIVE positionChildren(_, _, _, _, _, _)
positionChildren(es, parentId, startAngle, endAngle, depth, fuel) ==
    LET children == SortIds(RadialChildren(es, parentId))
        totalAngle == FracSub(endAngle, startAngle)
        anglePerChild == FracDivInt(totalAngle, Len(children))
        childStart(index) == FracAdd(startAngle, FracMulInt(anglePerChild, index))
        childEnd(index) == FracAdd(childStart(index), anglePerChild)
        midAngle(index) == FracAdd(childStart(index), FracDivInt(anglePerChild, 2))
        sets[k \in 0..Len(children)] ==
            IF k = 0 THEN <<>>
            ELSE sets[k - 1]
                 \o <<[id  |-> children[k],
                       pos |-> [engine |-> "radial",
                                r      |-> depth * RadialStep,
                                turn   |-> midAngle(k - 1)]]>>
                 \o positionChildren(es, children[k], childStart(k - 1),
                                     childEnd(k - 1), depth + 1, fuel - 1)
    IN  IF Len(children) = 0 \/ fuel = 0 THEN <<>> ELSE sets[Len(children)]

\* positions.get(id) || position, positions given as the sequence of
\* positions.set calls: the last positions.set(id, ...) wins
PositionsGet(sets, id, position) ==
    LET hits == {k \in 1..Len(sets) : sets[k].id = id}
    IN  IF hits = {} THEN position
        ELSE sets[CHOOSE k \in hits : \A j \in hits : j <= k].pos

\* nodes.find(n => n.data.depth === 0) || nodes[0], of a non-empty ns
RadialRoot(ns) ==
    LET AtDepth0(n) == n.data.depth = 0
        found == SelectSeq(ns, AtDepth0)
    IN  IF found # <<>> THEN found[1] ELSE ns[1]

\* nodes.map(node => ({ ...node, position: positions.get(node.id) || node.position }))
PlaceNodes(ns, sets) ==
    [i \in 1..Len(ns) |->
        [ns[i] EXCEPT !.position = PositionsGet(sets, ns[i].id, ns[i].position)]]

calculateRadialLayout(ns, es) ==
    IF ns = <<>> THEN ns
    ELSE PlaceNodes(ns,
             <<[id |-> RadialRoot(ns).id, pos |-> [x |-> 0, y |-> 0]]>>
             \o positionChildren(es, RadialRoot(ns).id, <<0, 1>>, <<1, 1>>, 1, Len(es) + 1))

\* Faulty variant: the positions are written into the nodes passed in.
RadialLayoutCall_InPlace(ns, es) ==
    [result |-> calculateRadialLayout(ns, es),
     nodes  |-> calculateRadialLayout(ns, es),
     edges  |-> es]

\* One call of calculateRadialLayout: the value it returns and its two
\* arguments as the call leaves them.  The function writes to childrenMap,
\* to positions and to the objects nodes.map creates; children.sort() sorts
\* the arrays of childrenMap.
RadialLayoutCall(ns, es) ==
    [result |-> calculateRadialLayout(ns, es), nodes |-> ns, edges |-> es]

(***************************************************************************)
(* store/useMindMapStore.ts                                                *)
(***************************************************************************)
computeLayout(ns, es, mode) ==
    CASE mode = "graph"  -> calculateGraphLayout(ns, es)
      [] mode = "radial" -> calculateRadialLayout(ns, es)
      [] OTHER           -> calculateLayout(ns, es)

createDefaultTemplate(name) ==
    [id       |-> "root",
     label    |-> name,
     type     |-> "root",
     summary  |-> "New mindmap",
     details  |-> "Click nodes to expand and explore",
     children |-> <<>>]

\* The objects of the hierarchies, where the program is followed object by
\* object: objs[a] is the object at address a, its children a sequence of
\* addresses; template is the address of the template object the caller
\* holds, root that of the store's hierarchicalData, recs[i] that of
\* maps[i].hierarchicalData.  NoHeap: the hierarchies are followed as values.
NoHeap == [objs |-> <<>>, template |-> 0, root |-> 0, recs |-> <<>>]

\* The store state get() returns.
Store ==
    [maps               |-> maps,
     activeMapId        |-> activeMapId,
     nodes              |-> nodes,
     edges              |-> edges,
     selectedNodeId     |-> selectedNodeId,
     hierarchicalData   |-> hierarchicalData,
     collapsedNodeIds   |-> collapsedNodeIds,
     layoutMode         |-> layoutMode,
     drillStack         |-> drillStack,
     currentDrillNodeId |-> currentDrillNodeId]

\* Faulty variant: nothing is written back to the active map's record.
SyncActiveMap_Skipped(s, patch) == s

\* maps.map((m) => m.id === activeMapId ? { ...m, ...patch } : m)
SyncActiveMap(s, patch) ==
    [s EXCEPT !.maps = [i \in 1..Len(s.maps) |->
                           IF s.maps[i].id = s.activeMapId
                           THEN Spread(s.maps[i], patch) ELSE s.maps[i]]]

initializeFromData(s, data) ==
    LET mode == s.layoutMode
        flat == flattenHierarchy(data, 0, Null)
        layoutedNodes == computeLayout(flat.nodes, flat.edges, mode)
        s1 == [s EXCEPT !.hierarchicalData = data,
                        !.nodes = layoutedNodes,
                        !.edges = flat.edges,
                        !.selectedNodeId = Null]
    IN  SyncActiveMap(s1, [hierarchicalData |-> data])

\* name and template are optional: Null and NoData stand for undefined
createMap(s, t, name, template) ==
    LET mapId == "map-" \o ToString(t)
        mapName == IF name # Null /\ name # "" THEN name
                   ELSE "Map " \o ToString(Len(s.maps) + 1)
        data == IF template # NoData THEN template ELSE createDefaultTemplate(mapName)
        newMap == [id               |-> mapId,
                   name             |-> mapName,
                   createdAt        |-> t,
                   hierarchicalData |-> data,
                   collapsedNodeIds |-> JsSet({}),
                   layoutMode       |-> "tree"]
        s1 == [s EXCEPT !.maps = Append(@, newMap), !.activeMapId = mapId]
    \* an exception out of initializeFromData leaves what was set before it
    IN  IF flattenThrows(data) THEN s1 ELSE initializeFromData(s1, data)

switchMap(s, mapId) ==
    LET Is(m) == m.id = mapId
        found == SelectSeq(s.maps, Is)
    IN  IF found = <<>> THEN s
        \* an exception out of flattenHierarchy leaves activeMapId set
        ELSE IF flattenThrows(found[1].hierarchicalData)
        THEN [s EXCEPT !.activeMapId = mapId]
        ELSE LET map == found[1]
                 collapsedIds == SetOf(map.collapsedNodeIds)
                 mode == map.layoutMode
                 flat == flattenHierarchy(map.hierarchicalData, 0, Null)
                 visible == filterCollapsedNodes(flat.nodes, flat.edges, collapsedIds)
                 layoutedNodes == computeLayout(visible.nodes, visible.edges, mode)
             IN  [s EXCEPT !.activeMapId = mapId,
                           !.hierarchicalData = map.hierarchicalData,
                           !.nodes = layoutedNodes,
                           !.edges = visible.edges,
                           !.collapsedNodeIds = collapsedIds,
                           !.selectedNodeId = Null,
                           !.layoutMode = mode]

deleteMap(s, mapId) ==
    IF Len(s.maps) <= 1 THEN s
    ELSE LET Other(m) == m.id # mapId
             newMaps == SelectSeq(s.maps, Other)
             s1 == [s EXCEPT !.maps = newMaps]
         IN  IF s.activeMapId # mapId THEN s1
             \* newMaps[0].id throws when no map is left: maps is already written
             ELSE IF newMaps = <<>> THEN s1
             ELSE switchMap(s1, newMaps[1].id)

\* the alert deleteMap raises, Null when it raises none
deleteMapAlert(s, mapId) ==
    IF Len(s.maps) <= 1 THEN "Cannot delete the last map" ELSE Null

\* The states switchMap writes with its set() calls, in order.  Every set()
\* notifies the subscribers and makes persist write localStorage.
switchMapWrites(s, mapId) ==
    LET Is(m) == m.id = mapId
        found == SelectSeq(s.maps, Is)
        s1 == [s EXCEPT !.activeMapId = mapId]
    IN  IF found = <<>> THEN <<>>
        ELSE IF flattenThrows(found[1].hierarchicalData) THEN <<s1>>
        ELSE <<s1, switchMap(s, mapId)>>

\* the states deleteMap writes with its set() calls and those of switchMap
deleteMapWrites(s, mapId) ==
    IF Len(s.maps) <= 1 THEN <<>>
    ELSE LET Other(m) == m.id # mapId
             newMaps == SelectSeq(s.maps, Other)
             s1 == [s EXCEPT !.maps = newMaps]
         IN  IF s.activeMapId # mapId \/ newMaps = <<>> THEN <<s1>>
             ELSE <<s1>> \o switchMapWrites(s1, newMaps[1].id)

\* Faulty variant: the view is flattened from the hierarchy before the layout.
setLayoutMode_Reflattens(s, mode) ==
    IF s.hierarchicalData = NoData THEN SyncActiveMap([s EXCEPT !.layoutMode = mode], [layoutMode |-> mode])
    ELSE LET flat == flattenHierarchy(s.hierarchicalData, 0, Null)
             s1 == [s EXCEPT !.layoutMode = mode,
                             !.nodes = computeLayout(flat.nodes, flat.edges, mode),
                             !.edges = flat.edges]
         IN  SyncActiveMap(s1, [layoutMode |-> mode])

setLayoutMode(s, mode) ==
    LET s1 == [s EXCEPT !.layoutMode = mode,
                        !.nodes = computeLayout(s.nodes, s.edges, mode)]
    IN  SyncActiveMap(s1, [layoutMode |-> mode])

\* Faulty variant: the hierarchy is updated, the rendered nodes are not.
UpdateNodeField_HierarchyOnly(s, nodeId, field, value) ==
    IF s.hierarchicalData = NoData THEN s
    ELSE LET patch == (field :> value)
             updatedHierarchy == updateHierarchicalData(s.hierarchicalData, nodeId, patch)
             s1 == [s EXCEPT !.hierarchicalData = updatedHierarchy]
         IN  SyncActiveMap(s1, [hierarchicalData |-> updatedHierarchy])

\* Faulty variant: the view is flattened and laid out again after the update.
UpdateNodeField_Reflattens(s, nodeId, field, value) ==
    IF s.hierarchicalData = NoData THEN s
    ELSE LET updatedHierarchy ==
                 updateHierarchicalData(s.hierarchicalData, nodeId, (field :> value))
             flat == flattenHierarchy(updatedHierarchy, 0, Null)
             s1 == [s EXCEPT !.hierarchicalData = updatedHierarchy,
                             !.nodes = computeLayout(flat.nodes, flat.edges, s.layoutMode),
                             !.edges = flat.edges]
         IN  SyncActiveMap(s1, [hierarchicalData |-> updatedHierarchy])

\* updateNodeLabel / updateNodeSummary / updateNodeDetails: field is the
\* text field the operation sets
UpdateNodeField(s, nodeId, field, value) ==
    IF s.hierarchicalData = NoData THEN s
    ELSE LET patch == (field :> value)
             updatedHierarchy == updateHierarchicalData(s.hierarchicalData, nodeId, patch)
             updatedNodes == [i \in 1..Len(s.nodes) |->
                                 IF s.nodes[i].id = nodeId
                                 THEN [s.nodes[i] EXCEPT !.data = Spread(@, patch)]
                                 ELSE s.nodes[i]]
             s1 == [s EXCEPT !.hierarchicalData = updatedHierarchy,
                             !.nodes = updatedNodes]
         IN  SyncActiveMap(s1, [hierarchicalData |-> updatedHierarchy])

updateNodeLabel(s, nodeId, newLabel) == UpdateNodeField(s, nodeId, "label", newLabel)

updateNodeSummary(s, nodeId, newSummary) == UpdateNodeField(s, nodeId, "summary", newSummary)

updateNodeDetails(s, nodeId, newDetails) == UpdateNodeField(s, nodeId, "details", newDetails)

selectNode(s, nodeId) == [s EXCEPT !.selectedNodeId = nodeId]

\* Faulty variant: a toggle collapses and never expands.
toggleNodeExpansion_OnlyCollapses(s, nodeId) ==
    IF s.hierarchicalData = NoData THEN s
    ELSE LET newCollapsedIds == s.collapsedNodeIds \cup {nodeId}
             flat == flattenHierarchy(s.hierarchicalData, 0, Null)
             updatedNodes == [i \in 1..Len(flat.nodes) |->
                                 IF flat.nodes[i].id = nodeId
                                 THEN [flat.nodes[i] EXCEPT !.data.isExpanded = ~@]
                                 ELSE flat.nodes[i]]
             visible == filterCollapsedNodes(updatedNodes, flat.edges, newCollapsedIds)
             layoutedNodes == computeLayout(visible.nodes, visible.edges, s.layoutMode)
             s1 == [s EXCEPT !.collapsedNodeIds = newCollapsedIds,
                             !.nodes = layoutedNodes,
                             !.edges = visible.edges]
         IN  SyncActiveMap(s1, [collapsedNodeIds |-> JsSet(newCollapsedIds)])

\* Faulty variant: the view is filtered by the collapse set as it was
\* before the toggle.
toggleNodeExpansion_StaleFilter(s, nodeId) ==
    IF s.hierarchicalData = NoData THEN s
    ELSE LET newCollapsedIds == IF nodeId \in s.collapsedNodeIds
                                THEN s.collapsedNodeIds \ {nodeId}
                                ELSE s.collapsedNodeIds \cup {nodeId}
             flat == flattenHierarchy(s.hierarchicalData, 0, Null)
             visible == filterCollapsedNodes(flat.nodes, flat.edges, s.collapsedNodeIds)
             s1 == [s EXCEPT !.collapsedNodeIds = newCollapsedIds,
                             !.nodes = computeLayout(visible.nodes, visible.edges, s.layoutMode),
                             !.edges = visible.edges]
         IN  SyncActiveMap(s1, [collapsedNodeIds |-> JsSet(newCollapsedIds)])

toggleNodeExpansion(s, nodeId) ==
    IF s.hierarchicalData = NoData THEN s
    ELSE LET newCollapsedIds == IF nodeId \in s.collapsedNodeIds
                                THEN s.collapsedNodeIds \ {nodeId}
                                ELSE s.collapsedNodeIds \cup {nodeId}
             flat == flattenHierarchy(s.hierarchicalData, 0, Null)
             updatedNodes == [i \in 1..Len(flat.nodes) |->
                                 IF flat.nodes[i].id = nodeId
                                 THEN [flat.nodes[i] EXCEPT !.data.isExpanded = ~@]
                                 ELSE flat.nodes[i]]
             visible == filterCollapsedNodes(updatedNodes, flat.edges, newCollapsedIds)
             layoutedNodes == computeLayout(visible.nodes, visible.edges, s.layoutMode)
             s1 == [s EXCEPT !.collapsedNodeIds = newCollapsedIds,
                             !.nodes = layoutedNodes,
                             !.edges = visible.edges]
         IN  SyncActiveMap(s1, [collapsedNodeIds |-> JsSet(newCollapsedIds)])

\* Faulty variant: the label of newNodeData is ignored.
NewNodeOf_DefaultLabel(newNodeData, t) ==
    [id       |-> OrElse(newNodeData, "id", "node-" \o ToString(t)),
     label    |-> "New Node",
     type     |-> OrElse(newNodeData, "type", "grandchild"),
     summary  |-> OrElse(newNodeData, "summary", "New node summary"),
     details  |-> OrElse(newNodeData, "details", "New node details"),
     children |-> <<>>]

\* The HierarchicalNode addNode builds from newNodeData (a Partial) at time t.
NewNodeOf(newNodeData, t) ==
    [id       |-> OrElse(newNodeData, "id", "node-" \o ToString(t)),
     label    |-> OrElse(newNodeData, "label", "New Node"),
     type     |-> OrElse(newNodeData, "type", "grandchild"),
     summary  |-> OrElse(newNodeData, "summary", "New node summary"),
     details  |-> OrElse(newNodeData, "details", "New node details"),
     children |-> <<>>]

addNode(s, t, parentId, newNodeData) ==
    IF s.hierarchicalData = NoData THEN s
    ELSE LET newNode == NewNodeOf(newNodeData, t)
             updatedHierarchy == addNodeToHierarchy(s.hierarchicalData, parentId, newNode)
             flat == flattenHierarchy(updatedHierarchy, 0, Null)
             layoutedNodes == computeLayout(flat.nodes, flat.edges, s.layoutMode)
             s1 == [s EXCEPT !.hierarchicalData = updatedHierarchy,
                             !.nodes = layoutedNodes,
                             !.edges = flat.edges]
         IN  SyncActiveMap(s1, [hierarchicalData |-> updatedHierarchy])

RECURSIVE removeNodeFromHierarchy(_, _)
removeNodeFromHierarchy(node, targetId) ==
    IF HasChildrenField(node)
    THEN LET Kept(child) == child.id # targetId
             kept == SelectSeq(node.children, Kept)
         IN  [node EXCEPT !.children =
                 [i \in 1..Len(kept) |-> removeNodeFromHierarchy(kept[i], targetId)]]
    ELSE node

\* Faulty variant: the root is not guarded.
deleteNode_NoRootGuard(s, nodeId) ==
    IF s.hierarchicalData = NoData THEN s
    ELSE LET updatedHierarchy == removeNodeFromHierarchy(s.hierarchicalData, nodeId)
             flat == flattenHierarchy(updatedHierarchy, 0, Null)
             layoutedNodes == computeLayout(flat.nodes, flat.edges, s.layoutMode)
             s1 == [s EXCEPT !.hierarchicalData = updatedHierarchy,
                             !.nodes = layoutedNodes,
                             !.edges = flat.edges,
                             !.selectedNodeId = IF s.selectedNodeId = nodeId
                                                THEN Null ELSE s.selectedNodeId]
         IN  SyncActiveMap(s1, [hierarchicalData |-> updatedHierarchy])

\* Faulty variant: the hierarchy loses the node, the rendered graph stays.
deleteNode_StaleView(s, nodeId) ==
    IF s.hierarchicalData = NoData THEN s
    ELSE IF nodeId = s.hierarchicalData.id THEN s
    ELSE LET updatedHierarchy == removeNodeFromHierarchy(s.hierarchicalData, nodeId)
             s1 == [s EXCEPT !.hierarchicalData = updatedHierarchy,
                             !.selectedNodeId = IF s.selectedNodeId = nodeId
                                                THEN Null ELSE s.selectedNodeId]
         IN  SyncActiveMap(s1, [hierarchicalData |-> updatedHierarchy])

deleteNode(s, nodeId) ==
    IF s.hierarchicalData = NoData THEN s
    ELSE IF nodeId = s.hierarchicalData.id THEN s
    ELSE LET updatedHierarchy == removeNodeFromHierarchy(s.hierarchicalData, nodeId)
             flat == flattenHierarchy(updatedHierarchy, 0, Null)
             layoutedNodes == computeLayout(flat.nodes, flat.edges, s.layoutMode)
             s1 == [s EXCEPT !.hierarchicalData = updatedHierarchy,
                             !.nodes = layoutedNodes,
                             !.edges = flat.edges,
                             !.selectedNodeId = IF s.selectedNodeId = nodeId
                                                THEN Null ELSE s.selectedNodeId]
         IN  SyncActiveMap(s1, [hierarchicalData |-> updatedHierarchy])

resetLayout(s) ==
    [s EXCEPT !.nodes = computeLayout(s.nodes, s.edges, s.layoutMode)]

\* Faulty variant: the collapse set is cleared in the store only; the active
\* map record keeps its set.
expandAll_RecordKept(s) ==
    IF s.hierarchicalData = NoData THEN s
    ELSE LET flat == flattenHierarchy(s.hierarchicalData, 0, Null)
         IN  [s EXCEPT !.collapsedNodeIds = {},
                       !.nodes = computeLayout(flat.nodes, flat.edges, s.layoutMode),
                       !.edges = flat.edges]

expandAll(s) ==
    IF s.hierarchicalData = NoData THEN s
    ELSE LET flat == flattenHierarchy(s.hierarchicalData, 0, Null)
             layoutedNodes == computeLayout(flat.nodes, flat.edges, s.layoutMode)
             s1 == [s EXCEPT !.collapsedNodeIds = {},
                             !.nodes = layoutedNodes,
                             !.edges = flat.edges]
         IN  SyncActiveMap(s1, [collapsedNodeIds |-> JsSet({})])

\* Faulty variant: the ids collapsed before stay in the set.
collapseAll_KeepsOld(s) ==
    IF s.hierarchicalData = NoData THEN s
    ELSE LET nodesToCollapse ==
                 s.collapsedNodeIds \cup
                 {s.nodes[i].id : i \in {j \in 1..Len(s.nodes) :
                                            /\ s.nodes[j].id # s.hierarchicalData.id
                                            /\ s.nodes[j].data.hasChildren}}
             flat == flattenHierarchy(s.hierarchicalData, 0, Null)
             visible == filterCollapsedNodes(flat.nodes, flat.edges, nodesToCollapse)
             s1 == [s EXCEPT !.collapsedNodeIds = nodesToCollapse,
                             !.nodes = computeLayout(visible.nodes, visible.edges, s.layoutMode),
                             !.edges = visible.edges]
         IN  SyncActiveMap(s1, [collapsedNodeIds |-> JsSet(nodesToCollapse)])

collapseAll(s) ==
    IF s.hierarchicalData = NoData THEN s
    ELSE LET nodesToCollapse ==
                 {s.nodes[i].id : i \in {j \in 1..Len(s.nodes) :
                                            /\ s.nodes[j].id # s.hierarchicalData.id
                                            /\ s.nodes[j].data.hasChildren}}
             flat == flattenHierarchy(s.hierarchicalData, 0, Null)
             visible == filterCollapsedNodes(flat.nodes, flat.edges, nodesToCollapse)
             layoutedNodes == computeLayout(visible.nodes, visible.edges, s.layoutMode)
             s1 == [s EXCEPT !.collapsedNodeIds = nodesToCollapse,
                             !.nodes = layoutedNodes,
                             !.edges = visible.edges]
         IN  SyncActiveMap(s1, [collapsedNodeIds |-> JsSet(nodesToCollapse)])

\* findNode of drillDown: the first node with the id, depth first; the
\* result is a sequence, empty for null
RECURSIVE findNode(_, _)
findNode(node, id) ==
    IF node.id = id THEN <<node>>
    ELSE LET kids == Children(node)
             \* the first hit among the first i children
             hit[i \in 0..Len(kids)] ==
                 IF i = 0 THEN <<>>
                 ELSE IF hit[i - 1] # <<>> THEN hit[i - 1]
                 ELSE findNode(kids[i], id)
         IN  hit[Len(kids)]

\* Faulty variant: the drilled subtree is filtered by the collapse set.
drillDown_Filtered(s, nodeId) ==
    IF s.hierarchicalData = NoData THEN s
    ELSE LET targetNodeId == IF nodeId # Null /\ nodeId # ""
                             THEN nodeId ELSE s.selectedNodeId
         IN  IF targetNodeId = Null \/ targetNodeId = "" THEN s
             ELSE LET target == findNode(s.hierarchicalData, targetNodeId)
                  IN  IF target = <<>> \/ Len(Children(target[1])) = 0 THEN s
                      ELSE LET newStack ==
                                   IF s.currentDrillNodeId # Null /\ s.currentDrillNodeId # ""
                                   THEN Append(s.drillStack, s.currentDrillNodeId)
                                   ELSE s.drillStack
                               flat == flattenHierarchy(target[1], 0, Null)
                               visible == filterCollapsedNodes(flat.nodes, flat.edges,
                                                               s.collapsedNodeIds)
                               layoutedNodes ==
                                   computeLayout(visible.nodes, visible.edges, s.layoutMode)
                           IN  [s EXCEPT !.drillStack = newStack,
                                         !.currentDrillNodeId = targetNodeId,
                                         !.nodes = layoutedNodes,
                                         !.edges = visible.edges,
                                         !.selectedNodeId = Null]

\* nodeId is optional: Null stands for undefined
drillDown(s, nodeId) ==
    IF s.hierarchicalData = NoData THEN s
    ELSE LET targetNodeId == IF nodeId # Null /\ nodeId # ""
                             THEN nodeId ELSE s.selectedNodeId
         IN  IF targetNodeId = Null \/ targetNodeId = "" THEN s
             ELSE LET target == findNode(s.hierarchicalData, targetNodeId)
                  IN  IF target = <<>> \/ Len(Children(target[1])) = 0 THEN s
                      ELSE LET newStack ==
                                   IF s.currentDrillNodeId # Null /\ s.currentDrillNodeId # ""
                                   THEN Append(s.drillStack, s.currentDrillNodeId)
                                   ELSE s.drillStack
                               flat == flattenHierarchy(target[1], 0, Null)
                               layoutedNodes ==
                                   computeLayout(flat.nodes, flat.edges, s.layoutMode)
                           IN  [s EXCEPT !.drillStack = newStack,
                                         !.currentDrillNodeId = targetNodeId,
                                         !.nodes = layoutedNodes,
                                         !.edges = flat.edges,
                                         !.selectedNodeId = Null]

\* the alert drillDown raises, Null when it raises none
drillDownAlert(s, nodeId) ==
    IF s.hierarchicalData = NoData THEN Null
    ELSE LET targetNodeId == IF nodeId # Null /\ nodeId # ""
                             THEN nodeId ELSE s.selectedNodeId
         IN  IF targetNodeId = Null \/ targetNodeId = ""
             THEN "Please select a node to drill down into"
             ELSE LET target == findNode(s.hierarchicalData, targetNodeId)
                  IN  IF target = <<>> \/ Len(Children(target[1])) = 0
                      THEN "Selected node has no children to drill into"
                      ELSE Null

\* the alert drillUp raises through its re-drill, Null when it raises none
drillUpAlert(s) ==
    IF s.hierarchicalData = NoData \/ Len(s.drillStack) = 0 THEN Null
    ELSE drillDownAlert(s, s.drillStack[Len(s.drillStack)])

\* Faulty variant: the re-drill's own stack is kept, the popped stack is not
\* written back.
drillUp_KeepsRedrillStack(s) ==
    IF s.hierarchicalData = NoData THEN s
    ELSE IF Len(s.drillStack) = 0
    THEN LET flat == flattenHierarchy(s.hierarchicalData, 0, Null)
         IN  [s EXCEPT !.drillStack = <<>>,
                       !.currentDrillNodeId = Null,
                       !.nodes = computeLayout(flat.nodes, flat.edges, s.layoutMode),
                       !.edges = flat.edges]
    ELSE drillDown(s, s.drillStack[Len(s.drillStack)])

\* Faulty variant: the stack is dropped and the whole tree shown, whatever
\* the stack holds.
drillUp_ToWholeTree(s) ==
    IF s.hierarchicalData = NoData THEN s
    ELSE LET flat == flattenHierarchy(s.hierarchicalData, 0, Null)
         IN  [s EXCEPT !.drillStack = <<>>,
                       !.currentDrillNodeId = Null,
                       !.nodes = computeLayout(flat.nodes, flat.edges, s.layoutMode),
                       !.edges = flat.edges]

drillUp(s) ==
    IF s.hierarchicalData = NoData THEN s
    ELSE IF Len(s.drillStack) = 0
    THEN LET flat == flattenHierarchy(s.hierarchicalData, 0, Null)
             layoutedNodes == computeLayout(flat.nodes, flat.edges, s.layoutMode)
         IN  [s EXCEPT !.drillStack = <<>>,
                       !.currentDrillNodeId = Null,
                       !.nodes = layoutedNodes,
                       !.edges = flat.edges]
    ELSE LET newStack == SubSeq(s.drillStack, 1, Len(s.drillStack) - 1)
             parentNodeId == s.drillStack[Len(s.drillStack)]
         IN  IF parentNodeId # Null /\ parentNodeId # ""
             THEN [drillDown(s, parentNodeId) EXCEPT !.drillStack = newStack]
             ELSE s

(***************************************************************************)
(* lib/parsers.ts and the import dialog                                    *)
(***************************************************************************)
\* The content of an imported file is text that JSON.parse rejects, or the
\* text of a JSON value: [text |-> ..] and [json |-> value].
InvalidStructure == "Invalid JSON structure. Root node must have \"id\" and \"label\" fields."

\* parseJson returns the parsed root as data, or throws an Error with the
\* message error
parseJson(content) ==
    IF "json" \notin DOMAIN content
    THEN [error |-> "Failed to parse JSON: SyntaxError"]
    ELSE LET json == content.json
         IN  IF json = NoData
             THEN [error |-> "Failed to parse JSON: TypeError"]
             ELSE IF OrElse(json, "id", "") = "" \/ OrElse(json, "label", "") = ""
             THEN [error |-> "Failed to parse JSON: " \o InvalidStructure]
             ELSE [data |-> json]

\* Faulty variant: a file that fails to parse is imported as an empty map.
handleImport_KeepsGoing(s, t, content, mapName) ==
    LET parsed == parseJson(content)
    IN  IF "error" \in DOMAIN parsed
        THEN [state |-> createMap(s, t, "Imported Map", NoData),
              alert |-> "Import failed: " \o parsed.error]
        ELSE [state |-> createMap(s, t, mapName, parsed.data), alert |-> Null]

\* handleImport(content, 'json') with mapName typed into the dialog: the
\* store state it leaves and the alert it raises, Null when it raises none
handleImport(s, t, content, mapName) ==
    LET parsed == parseJson(content)
    IN  IF "error" \in DOMAIN parsed
        THEN [state |-> s, alert |-> "Import failed: " \o parsed.error]
        ELSE LET data == parsed.data
                 finalName == IF mapName # "" THEN mapName
                              ELSE OrElse(data, "label", "Imported Map")
             IN  [state |-> createMap(s, t, finalName, data),
                  alert |-> IF flattenThrows(data)
                            THEN "Import failed: TypeError" ELSE Null]

(***************************************************************************)
(* The inputs of the operations.                                           *)
(***************************************************************************)
\* The tree the application starts from (the imported initial data): a root
\* R with the children A and B, A with the child C.  B carries no children
\* field, C carries an empty one.
InitialData ==
    [id |-> "R", label |-> "Root", type |-> "root", summary |-> "s", details |-> "d",
     children |->
        <<[id |-> "A", label |-> "Alpha", type |-> "child", summary |-> "s", details |-> "d",
           children |->
              <<[id |-> "C", label |-> "Gamma", type |-> "grandchild",
                 summary |-> "s", details |-> "d", children |-> <<>>]>>],
          [id |-> "B", label |-> "Beta", type |-> "child", summary |-> "s", details |-> "d"]>>]

\* createMap(name?, template?) as the application calls it: the sidebar's
\* createMap() and createMap(name, data) of the first load and of an import
CreateMapInputs ==
    {<<Null, NoData>>, <<"Enterprise Software Architecture", InitialData>>}

\* initializeFromData(data)
InitializeInputs == {InitialData}

\* addNode's newNodeData: the side panel's, and one with an empty label
NewNodeInputs ==
    {[label   |-> "New Child",
      summary |-> "A newly created node",
      details |-> "This node was created dynamically",
      type    |-> "child"],
     [label |-> ""]}

\* the new text of an update
TextInputs == {"X", ""}

LayoutModes == {"tree", "graph", "radial"}

\* an id no node carries
MissingId == "ghost"

RECURSIVE IdsOf(_)
IdsOf(node) ==
    {node.id} \cup UNION {IdsOf(Children(node)[i]) : i \in 1..Len(Children(node))}

HierarchyIds == IF hierarchicalData = NoData THEN {} ELSE IdsOf(hierarchicalData)

\* every node id an operation may be called with: those of the hierarchy
\* and a missing one
NodeIdInputs == HierarchyIds \cup {MissingId}

RenderedIds == {nodes[i].id : i \in 1..Len(nodes)}

\* The side panel acts on the selected node, which it finds among the
\* rendered nodes (SidePanel: nodes.find((n) => n.id === selectedNodeId)).
PanelIdInputs == (IF selectedNodeId \in RenderedIds THEN {selectedNodeId} ELSE {})
                 \cup {MissingId}

\* A node shows its expand/collapse button when it has children.
ToggleIdInputs == {nodes[i].id : i \in {j \in 1..Len(nodes) : nodes[j].data.hasChildren}}

MapIdInputs == {maps[i].id : i \in 1..Len(maps)} \cup {"map-0"}

\* a tree to import: a root I with the child J
ImportedData ==
    [id |-> "I", label |-> "Imported", type |-> "root", summary |-> "s", details |-> "d",
     children |->
        <<[id |-> "J", label |-> "Leaf", type |-> "child", summary |-> "s", details |-> "d"]>>]

\* Files to import: text that is not JSON, the JSON value null, a root
\* without id, a root without label, a tree, and a tree with a null child.
ImportInputs ==
    {[text |-> "{"],
     [json |-> NoData],
     [json |-> [label |-> "Imported"]],
     [json |-> [id |-> "I"]],
     [json |-> ImportedData],
     [json |-> [ImportedData EXCEPT !.children = <<NoData>>]]}

\* the name typed into the import dialog
ImportNameInputs == {"", "Mine"}

(***************************************************************************)
(* The persist middleware and the first load of the page                   *)
(***************************************************************************)
\* Array.from(m.collapsedNodeIds): the ids of a Set in the order they were
\* added, which the model's sets do not keep, so any order; an array as it is
ArrayFrom(value) ==
    IF "array" \in DOMAIN value THEN {value.array}
    ELSE LET ids == SetOf(value)
         IN  {list \in [1..Cardinality(ids) -> ids] : Range(list) = ids}

\* JSON.stringify writes a Date as a string
DateToJson(date) == "T" \o ToString(date)

\* what partialize keeps of one map, as JSON.parse reads it back
PersistedMap(m, list) ==
    [m EXCEPT !.collapsedNodeIds = JsArray(list), !.createdAt = DateToJson(@)]

\* the values localStorage can hold after the state s was written
partialize(s) ==
    LET n == Len(s.maps)
        Lists == UNION {ArrayFrom(s.maps[i].collapsedNodeIds) : i \in 1..n}
        Orders == {f \in [1..n -> Lists] :
                      \A i \in 1..n : f[i] \in ArrayFrom(s.maps[i].collapsedNodeIds)}
    IN  {[maps |-> [i \in 1..n |-> PersistedMap(s.maps[i], f[i])],
          activeMapId |-> s.activeMapId] : f \in Orders}

\* the state of a newly created store
InitialStore ==
    [maps |-> <<>>, activeMapId |-> "", nodes |-> <<>>, edges |-> <<>>,
     selectedNodeId |-> Null, hierarchicalData |-> NoData, collapsedNodeIds |-> {},
     drillStack |-> <<>>, currentDrillNodeId |-> Null, layoutMode |-> "tree"]

\* persist merges the stored value into the new store's state
rehydrate(persisted) == Spread(InitialStore, persisted)

\* the effect Home runs once after the store was rehydrated
homeEffect(s, t) ==
    IF Len(s.maps) = 0
    THEN createMap(s, t, "Enterprise Software Architecture", InitialData)
    ELSE IF s.activeMapId = "" THEN switchMap(s, s.maps[1].id)
    ELSE LET Is(m) == m.id = s.activeMapId
             found == SelectSeq(s.maps, Is)
         IN  IF found = <<>> \/ flattenThrows(found[1].hierarchicalData) THEN s
             ELSE [initializeFromData(s, found[1].hierarchicalData)
                       EXCEPT !.collapsedNodeIds = SetOf(found[1].collapsedNodeIds)]

(***************************************************************************)
(* The state machine: one action per store operation.  An operation runs   *)
(* to completion; Commit is the state its set() calls leave.               *)
(***************************************************************************)
Commit(s) ==
    /\ maps' = s.maps
    /\ activeMapId' = s.activeMapId
    /\ nodes' = s.nodes
    /\ edges' = s.edges
    /\ selectedNodeId' = s.selectedNodeId
    /\ hierarchicalData' = s.hierarchicalData
    /\ collapsedNodeIds' = s.collapsedNodeIds
    /\ layoutMode' = s.layoutMode
    /\ drillStack' = s.drillStack
    /\ currentDrillNodeId' = s.currentDrillNodeId
    /\ heap' = heap

Init ==
    /\ maps = <<>>
    /\ activeMapId = ""
    /\ nodes = <<>>
    /\ edges = <<>>
    /\ selectedNodeId = Null
    /\ hierarchicalData = NoData
    /\ collapsedNodeIds = {}
    /\ layoutMode = "tree"
    /\ drillStack = <<>>
    /\ currentDrillNodeId = Null
    /\ now = 0
    /\ steps = 0
    /\ lastOp = [op |-> "create"]
    /\ heap = NoHeap

\* steps counts the operations of the run
Step == steps < MaxSteps /\ steps' = steps + 1

\* Date.now(): every reading is later than the one before
Tick == now' = now + 1

CreateMap ==
    /\ Step
    /\ \E in \in CreateMapInputs :
           /\ Tick
           /\ Commit(createMap(Store, now + 1, in[1], in[2]))
           /\ lastOp' = [op |-> "createMap"]

SwitchMap ==
    /\ Step
    /\ \E mapId \in MapIdInputs :
           /\ Commit(switchMap(Store, mapId))
           /\ lastOp' = [op |-> "switchMap", mapId |-> mapId]
           /\ UNCHANGED now

DeleteMap ==
    /\ Step
    /\ \E mapId \in MapIdInputs :
           /\ Commit(deleteMap(Store, mapId))
           /\ lastOp' = [op |-> "deleteMap", mapId |-> mapId,
                          alert |-> deleteMapAlert(Store, mapId)]
           /\ UNCHANGED now

InitializeFromData ==
    /\ Step
    /\ \E data \in InitializeInputs :
           /\ Commit(initializeFromData(Store, data))
           /\ lastOp' = [op |-> "initializeFromData"]
           /\ UNCHANGED now

SetLayoutMode ==
    /\ Step
    /\ \E mode \in LayoutModes :
           /\ Commit(setLayoutMode(Store, mode))
           /\ lastOp' = [op |-> "setLayoutMode", mode |-> mode]
           /\ UNCHANGED now

UpdateNodeLabel ==
    /\ Step
    /\ \E nodeId \in PanelIdInputs, newLabel \in TextInputs :
           /\ Commit(updateNodeLabel(Store, nodeId, newLabel))
           /\ lastOp' = [op |-> "updateNodeLabel", nodeId |-> nodeId, value |-> newLabel]
           /\ UNCHANGED now

UpdateNodeSummary ==
    /\ Step
    /\ \E nodeId \in PanelIdInputs, newSummary \in TextInputs :
           /\ Commit(updateNodeSummary(Store, nodeId, newSummary))
           /\ lastOp' = [op |-> "updateNodeSummary", nodeId |-> nodeId, value |-> newSummary]
           /\ UNCHANGED now

UpdateNodeDetails ==
    /\ Step
    /\ \E nodeId \in PanelIdInputs, newDetails \in TextInputs :
           /\ Commit(updateNodeDetails(Store, nodeId, newDetails))
           /\ lastOp' = [op |-> "updateNodeDetails", nodeId |-> nodeId, value |-> newDetails]
           /\ UNCHANGED now

SelectNode ==
    /\ Step
    /\ \E nodeId \in RenderedIds \cup {Null} :
           /\ Commit(selectNode(Store, nodeId))
           /\ lastOp' = [op |-> "selectNode", nodeId |-> nodeId]
           /\ UNCHANGED now

ToggleNodeExpansion ==
    /\ Step
    /\ \E nodeId \in ToggleIdInputs :
           /\ Commit(toggleNodeExpansion(Store, nodeId))
           /\ lastOp' = [op |-> "toggleNodeExpansion", nodeId |-> nodeId]
           /\ UNCHANGED now

AddNode ==
    /\ Step
    /\ \E parentId \in PanelIdInputs, newNodeData \in NewNodeInputs :
           /\ Tick
           /\ Commit(addNode(Store, now + 1, parentId, newNodeData))
           /\ lastOp' = [op |-> "addNode", nodeId |-> parentId]

DeleteNode ==
    /\ Step
    /\ \E nodeId \in PanelIdInputs :
           /\ Commit(deleteNode(Store, nodeId))
           /\ lastOp' = [op |-> "deleteNode", nodeId |-> nodeId]
           /\ UNCHANGED now

ResetLayout ==
    /\ Step
    /\ Commit(resetLayout(Store))
    /\ lastOp' = [op |-> "resetLayout"]
    /\ UNCHANGED now

ExpandAll ==
    /\ Step
    /\ Commit(expandAll(Store))
    /\ lastOp' = [op |-> "expandAll"]
    /\ UNCHANGED now

CollapseAll ==
    /\ Step
    /\ Commit(collapseAll(Store))
    /\ lastOp' = [op |-> "collapseAll"]
    /\ UNCHANGED now

DrillDown ==
    /\ Step
    /\ \E nodeId \in ToggleIdInputs \cup {MissingId, Null} :
           /\ Commit(drillDown(Store, nodeId))
           /\ lastOp' = [op |-> "drillDown", nodeId |-> nodeId,
                          alert |-> drillDownAlert(Store, nodeId)]
           /\ UNCHANGED now

DrillUp ==
    /\ Step
    /\ Commit(drillUp(Store))
    /\ lastOp' = [op |-> "drillUp", alert |-> drillUpAlert(Store)]
    /\ UNCHANGED now

Next ==
    \/ CreateMap
    \/ SwitchMap
    \/ DeleteMap
    \/ InitializeFromData
    \/ SetLayoutMode
    \/ UpdateNodeLabel
    \/ UpdateNodeSummary
    \/ UpdateNodeDetails
    \/ SelectNode
    \/ ToggleNodeExpansion
    \/ AddNode
    \/ DeleteNode
    \/ ResetLayout
    \/ ExpandAll
    \/ CollapseAll
    \/ DrillDown
    \/ DrillUp

Spec == Init /\ [][Next]_vars

(***************************************************************************)
(* The map collection under calls made by a program rather than by a       *)
(* user's clicks: createMap, switchMap and deleteMap in any order and with *)
(* any id.  Date.now() has the resolution of a millisecond, so two calls   *)
(* may read the same value.                                                *)
(***************************************************************************)
MaxCalls == 5

Call == steps < MaxCalls /\ steps' = steps + 1

\* the values a reading of Date.now() can have after the reading now
ClockReadings == {now, now + 1} \ {0}

CallCreateMap ==
    /\ Call
    /\ \E in \in CreateMapInputs, t \in ClockReadings :
           /\ now' = t
           /\ Commit(createMap(Store, t, in[1], in[2]))
           /\ lastOp' = [op |-> "createMap"]

CallSwitchMap ==
    /\ Call
    /\ \E mapId \in MapIdInputs :
           /\ Commit(switchMap(Store, mapId))
           /\ lastOp' = [op |-> "switchMap", mapId |-> mapId]
           /\ UNCHANGED now

CallDeleteMap ==
    /\ Call
    /\ \E mapId \in MapIdInputs :
           /\ Commit(deleteMap(Store, mapId))
           /\ lastOp' = [op |-> "deleteMap", mapId |-> mapId,
                          alert |-> deleteMapAlert(Store, mapId)]
           /\ UNCHANGED now

NextMaps == CallCreateMap \/ CallSwitchMap \/ CallDeleteMap

SpecMaps == Init /\ [][NextMaps]_vars

(***************************************************************************)
(* The store under the import dialog: files are imported, maps are         *)
(* switched and deleted, nodes are collapsed.                              *)
(***************************************************************************)
ImportJson ==
    /\ Step
    /\ \E content \in ImportInputs, mapName \in ImportNameInputs :
           LET r == handleImport(Store, now + 1, content, mapName)
           IN  /\ Commit(r.state)
               /\ now' = IF "data" \in DOMAIN parseJson(content) THEN now + 1 ELSE now
               /\ lastOp' = [op |-> "handleImport", content |-> content, alert |-> r.alert]

NextImport == ImportJson \/ SwitchMap \/ DeleteMap \/ ToggleNodeExpansion

SpecImport == Init /\ [][NextImport]_vars

(***************************************************************************)
(* The transformations on their own: flattenHierarchy and                  *)
(* filterCollapsedNodes applied to every tree of at most MaxTreeSize nodes *)
(* over the ids TreeIds (ids may repeat: they are not validated), and      *)
(* every set of collapsed ids.                                             *)
(***************************************************************************)
TreeIds == {"A", "B", "C"}

LeafOf(id) ==
    {[id |-> id, label |-> id, type |-> "child", summary |-> "s", details |-> "d"],
     [id |-> id, label |-> id, type |-> "child", summary |-> "s", details |-> "d",
      children |-> <<>>]}

\* TreesOfSize[n]: the trees of exactly n nodes; ForestsOfSize[n]: the
\* non-empty sequences of trees of n nodes in all
RECURSIVE TreesOfSize(_), ForestsOfSize(_)
TreesOfSize(n) ==
    IF n = 1 THEN UNION {LeafOf(id) : id \in TreeIds}
    ELSE {[id |-> id, label |-> id, type |-> "child", summary |-> "s", details |-> "d",
           children |-> kids] : id \in TreeIds, kids \in ForestsOfSize(n - 1)}

ForestsOfSize(n) ==
    {<<t>> : t \in TreesOfSize(n)}
    \cup UNION {{<<t>> \o rest : t \in TreesOfSize(k), rest \in ForestsOfSize(n - k)}
                : k \in 1..(n - 1)}

TreeInputs == UNION {TreesOfSize(n) : n \in 1..MaxTreeSize}

CollapsedInputs == SUBSET (TreeIds \cup {MissingId})

InitPure ==
    /\ maps = <<>>
    /\ activeMapId = ""
    /\ nodes = <<>>
    /\ edges = <<>>
    /\ selectedNodeId = Null
    /\ hierarchicalData \in TreeInputs
    /\ collapsedNodeIds \in CollapsedInputs
    /\ layoutMode = "tree"
    /\ drillStack = <<>>
    /\ currentDrillNodeId = Null
    /\ now = 0
    /\ steps = 0
    /\ lastOp = [op |-> "create"]
    /\ heap = NoHeap

\* whether the descendant walk of filterCollapsedNodes returns
FilterReturns(es, collapsed) ==
    \A nodeId \in collapsed : ~WalkOverflows(es, nodeId, Len(es) + 1)

PureUnchanged ==
    UNCHANGED <<maps, activeMapId, selectedNodeId, hierarchicalData, collapsedNodeIds,
                layoutMode, drillStack, currentDrillNodeId, now, steps, heap>>

PureFlatten ==
    LET flat == flattenHierarchy(hierarchicalData, 0, Null)
    IN  /\ nodes' = flat.nodes
        /\ edges' = flat.edges
        /\ lastOp' = [op |-> "flattenHierarchy"]
        /\ PureUnchanged

PureFilter ==
    LET flat == flattenHierarchy(hierarchicalData, 0, Null)
    IN  /\ FilterReturns(flat.edges, collapsedNodeIds)
        /\ LET visible == filterCollapsedNodes(flat.nodes, flat.edges, collapsedNodeIds)
           IN  /\ nodes' = visible.nodes
               /\ edges' = visible.edges
        /\ lastOp' = [op |-> "filterCollapsedNodes"]
        /\ PureUnchanged

NextPure ==
    \/ PureFlatten
    \/ PureFilter

SpecPure == InitPure /\ [][NextPure]_vars

(***************************************************************************)
(* Vocabulary of the properties.                                           *)
(***************************************************************************)
\* The positions of a tree's nodes as paths of child indices, in pre-order.
RECURSIVE PathsOf(_)
(***************************************************************************)
(* calculateRadialLayout as a function: it is called, more than once, on   *)
(* the arrays nodes and edges of its caller.                               *)
(***************************************************************************)
MaxLayoutCalls == 2

\* the arrays to lay out: none, and the flattened trees
LayoutInputs ==
    {[nodes |-> <<>>, edges |-> <<>>]}
    \cup {flattenHierarchy(tree, 0, Null) : tree \in TreeInputs}

InitRadial ==
    /\ maps = <<>>
    /\ activeMapId = ""
    /\ \E in \in LayoutInputs : nodes = in.nodes /\ edges = in.edges
    /\ selectedNodeId = Null
    /\ hierarchicalData = NoData
    /\ collapsedNodeIds = {}
    /\ layoutMode = "radial"
    /\ drillStack = <<>>
    /\ currentDrillNodeId = Null
    /\ now = 0
    /\ steps = 0
    /\ lastOp = [op |-> "create"]
    /\ heap = NoHeap

RadialLayout ==
    /\ steps < MaxLayoutCalls
    /\ steps' = steps + 1
    /\ LET call == RadialLayoutCall(nodes, edges)
       IN  /\ nodes' = call.nodes
           /\ edges' = call.edges
           /\ lastOp' = [op |-> "calculateRadialLayout", result |-> call.result]
    /\ UNCHANGED <<maps, activeMapId, selectedNodeId, hierarchicalData, collapsedNodeIds,
                   layoutMode, drillStack, currentDrillNodeId, now, heap>>

NextRadial == RadialLayout

SpecRadial == InitRadial /\ [][NextRadial]_vars

(***************************************************************************)
(* The store with its hierarchies followed object by object.  createMap    *)
(* keeps the template object it is given in the new record and in the      *)
(* store; switchMap puts the record's object into the store; deleteNode    *)
(* copies the root object and assigns to the children property of every    *)
(* object below it.  After each operation the hierarchies of the store and *)
(* of the records are read back from the objects.                          *)
(***************************************************************************)
\* a new object for every node of the tree; the address of its root
RECURSIVE AllocTree(_, _)
AllocTree(objs, tree) ==
    IF ~HasChildrenField(tree)
    THEN [objs |-> Append(objs, tree), addr |-> Len(objs) + 1]
    ELSE LET kids == tree.children
             upTo[i \in 0..Len(kids)] ==
                 IF i = 0 THEN [objs |-> objs, addrs |-> <<>>]
                 ELSE LET a == AllocTree(upTo[i - 1].objs, kids[i])
                      IN  [objs |-> a.objs, addrs |-> Append(upTo[i - 1].addrs, a.addr)]
             done == upTo[Len(kids)]
         IN  [objs |-> Append(done.objs, [tree EXCEPT !.children = done.addrs]),
              addr |-> Len(done.objs) + 1]

\* the tree that is read from the object at address a
RECURSIVE Deref(_, _)
Deref(objs, a) ==
    IF HasChildrenField(objs[a])
    THEN [objs[a] EXCEPT !.children =
             [i \in 1..Len(objs[a].children) |-> Deref(objs, objs[a].children[i])]]
    ELSE objs[a]

\* removeNodeFromHierarchy(node, targetId) on the object at address a:
\* node.children = node.children.filter(...), then
\* node.children = node.children.map(child => removeNodeFromHierarchy(child, targetId)),
\* which assigns to the children of the child objects themselves
RECURSIVE removeNodeFromHierarchyInPlace(_, _, _)
removeNodeFromHierarchyInPlace(objs, a, targetId) ==
    IF ~HasChildrenField(objs[a]) THEN objs
    ELSE LET Kept(c) == objs[c].id # targetId
             kept == SelectSeq(objs[a].children, Kept)
             upTo[i \in 0..Len(kept)] ==
                 IF i = 0 THEN [objs EXCEPT ![a].children = kept]
                 ELSE removeNodeFromHierarchyInPlace(upTo[i - 1], kept[i], targetId)
         IN  upTo[Len(kept)]

\* the store s with the hierarchies read from the objects of h
ReadObjects(s, h) ==
    [s EXCEPT !.hierarchicalData = IF h.root = 0 THEN NoData ELSE Deref(h.objs, h.root),
              !.maps = [i \in 1..Len(s.maps) |->
                           [s.maps[i] EXCEPT !.hierarchicalData = Deref(h.objs, h.recs[i])]]]

CommitObjects(s, h) ==
    /\ maps' = ReadObjects(s, h).maps
    /\ activeMapId' = s.activeMapId
    /\ nodes' = s.nodes
    /\ edges' = s.edges
    /\ selectedNodeId' = s.selectedNodeId
    /\ hierarchicalData' = ReadObjects(s, h).hierarchicalData
    /\ collapsedNodeIds' = s.collapsedNodeIds
    /\ layoutMode' = s.layoutMode
    /\ drillStack' = s.drillStack
    /\ currentDrillNodeId' = s.currentDrillNodeId
    /\ heap' = h

\* initialData of the page: one object, imported once
InitObjects ==
    /\ maps = <<>>
    /\ activeMapId = ""
    /\ nodes = <<>>
    /\ edges = <<>>
    /\ selectedNodeId = Null
    /\ hierarchicalData = NoData
    /\ collapsedNodeIds = {}
    /\ layoutMode = "tree"
    /\ drillStack = <<>>
    /\ currentDrillNodeId = Null
    /\ now = 0
    /\ steps = 0
    /\ lastOp = [op |-> "create"]
    /\ heap = LET a == AllocTree(<<>>, InitialData)
              IN  [objs |-> a.objs, template |-> a.addr, root |-> 0, recs |-> <<>>]

\* createMap('Enterprise Software Architecture', initialData): the record and
\* the store hold the object initialData
CreateMapOfTemplateObject ==
    /\ Step
    /\ Tick
    /\ CommitObjects(createMap(Store, now + 1, "Enterprise Software Architecture",
                               Deref(heap.objs, heap.template)),
                     [heap EXCEPT !.root = heap.template,
                                  !.recs = Append(@, heap.template)])
    /\ lastOp' = [op |-> "createMap"]

\* createMap(): createDefaultTemplate makes a new object
CreateMapOfDefaultTemplate ==
    /\ Step
    /\ Tick
    /\ LET s1 == createMap(Store, now + 1, Null, NoData)
           a == AllocTree(heap.objs, s1.hierarchicalData)
       IN  CommitObjects(s1, [heap EXCEPT !.objs = a.objs,
                                          !.root = a.addr,
                                          !.recs = Append(@, a.addr)])
    /\ lastOp' = [op |-> "createMap"]

\* switchMap(mapId): hierarchicalData: map.hierarchicalData
SwitchMapObject ==
    /\ Step
    /\ \E mapId \in MapIdInputs :
           LET found == {i \in 1..Len(maps) : maps[i].id = mapId}
               first == CHOOSE i \in found : \A j \in found : i <= j
           IN  /\ CommitObjects(switchMap(Store, mapId),
                                IF found = {} THEN heap
                                ELSE [heap EXCEPT !.root = heap.recs[first]])
               /\ lastOp' = [op |-> "switchMap", mapId |-> mapId]
    /\ UNCHANGED now

\* deleteNode(nodeId): removeNodeFromHierarchy({ ...hierarchicalData }, nodeId)
\* on a copy of the root object; the result goes to the store and to the
\* records with the active id
DeleteNodeInPlace ==
    /\ Step
    /\ \E nodeId \in PanelIdInputs :
           LET copy == Len(heap.objs) + 1
               h == IF hierarchicalData = NoData \/ nodeId = hierarchicalData.id THEN heap
                    ELSE [heap EXCEPT
                             !.objs = removeNodeFromHierarchyInPlace(
                                          Append(heap.objs, heap.objs[heap.root]),
                                          copy, nodeId),
                             !.root = copy,
                             !.recs = [i \in 1..Len(maps) |->
                                          IF maps[i].id = activeMapId THEN copy
                                          ELSE heap.recs[i]]]
           IN  /\ CommitObjects(deleteNode(Store, nodeId), h)
               /\ lastOp' = [op |-> "deleteNode", nodeId |-> nodeId]
    /\ UNCHANGED now

NextObjects ==
    \/ CreateMapOfTemplateObject
    \/ CreateMapOfDefaultTemplate
    \/ SwitchMapObject
    \/ SelectNode
    \/ DeleteNodeInPlace

SpecObjects == InitObjects /\ [][NextObjects]_vars

PathsOf(node) ==
    LET kids == Children(node)
        upTo[i \in 0..Len(kids)] ==
            IF i = 0 THEN <<<<>>>>
            ELSE LET below == PathsOf(kids[i])
                 IN  upTo[i - 1] \o [j \in 1..Len(below) |-> <<i>> \o below[j]]
    IN  upTo[Len(kids)]

RECURSIVE NodeAt(_, _)
NodeAt(node, path) ==
    IF path = <<>> THEN node ELSE NodeAt(node.children[Head(path)], Tail(path))

\* the strict ancestors' positions
ProperPrefixes(path) == {SubSeq(path, 1, k) : k \in 0..(Len(path) - 1)}

TreeSize(node) == Len(PathsOf(node))

\* the (parent id, child id) pairs of a tree
ParentChildPairs(node) ==
    LET paths == PathsOf(node)
    IN  {<<NodeAt(node, SubSeq(paths[i], 1, Len(paths[i]) - 1)).id, NodeAt(node, paths[i]).id>>
            : i \in {j \in 1..Len(paths) : paths[j] # <<>>}}

UniqueIds(node) == Cardinality(IdsOf(node)) = TreeSize(node)

\* the position of the node with the id, in a tree of unique ids
PathOfId(node, id) ==
    LET paths == PathsOf(node)
    IN  paths[CHOOSE i \in 1..Len(paths) : NodeAt(node, paths[i]).id = id]

\* the ids of the subtree rooted at the node with the id
SubtreeIds(node, id) == IdsOf(NodeAt(node, PathOfId(node, id)))

ChildIds(node) == [i \in 1..Len(Children(node)) |-> Children(node)[i].id]

\* a node's own fields, without its children
OwnFields(node) == [f \in DOMAIN node \ {"children"} |-> node[f]]

IdSeq(ns) == [i \in 1..Len(ns) |-> ns[i].id]

EdgeSeq(es) == [i \in 1..Len(es) |-> <<es[i].source, es[i].target>>]

\* rendered nodes without their positions
Unplaced(ns) == [i \in 1..Len(ns) |-> [id |-> ns[i].id, data |-> ns[i].data]]

\* the whole tree, filtered by a collapse set
FilteredWhole(data, collapsed) ==
    LET flat == flattenHierarchy(data, 0, Null)
    IN  filterCollapsedNodes(flat.nodes, flat.edges, collapsed)

(***************************************************************************)
(* C1.  In the whole-tree view, after each of initializeFromData,          *)
(* switchMap, toggleNodeExpansion, addNode, deleteNode, expandAll,         *)
(* collapseAll and drillUp, the rendered node ids and edges are those of   *)
(* filterCollapsed(flatten(hierarchy), collapsedNodeIds).                  *)
(***************************************************************************)
C1_Ops == {"initializeFromData", "switchMap", "toggleNodeExpansion", "addNode",
           "deleteNode", "expandAll", "collapseAll", "drillUp"}

C1_WholeTreeViewIsFiltered ==
    (/\ lastOp.op \in C1_Ops
     /\ hierarchicalData # NoData
     /\ currentDrillNodeId = Null)
    => LET visible == FilteredWhole(hierarchicalData, collapsedNodeIds)
       IN  /\ IdSeq(nodes) = IdSeq(visible.nodes)
           /\ EdgeSeq(edges) = EdgeSeq(visible.edges)

(***************************************************************************)
(* C2.  flattenHierarchy of a tree of N nodes returns N flat nodes and     *)
(* N-1 edges, and the edges are exactly the tree's (parent id, child id)   *)
(* pairs, directed from parent to child.                                   *)
(***************************************************************************)
C2_FlattenCounts ==
    LET flat == flattenHierarchy(hierarchicalData, 0, Null)
        n == TreeSize(hierarchicalData)
    IN  hierarchicalData # NoData =>
            /\ Len(flat.nodes) = n
            /\ Len(flat.edges) = n - 1
            /\ Range(EdgeSeq(flat.edges)) = ParentChildPairs(hierarchicalData)

C2_Witness ==
    /\ lastOp.op = "flattenHierarchy"
    /\ Len(nodes) = 3
    /\ Len(edges) = 2
    /\ EdgeSeq(edges) = <<<<"A", "B">>, <<"B", "C">>>>

(***************************************************************************)
(* C3.  Every node flattenHierarchy produces carries as depth the number   *)
(* of its strict ancestors up to the start node: the k-th flat node is the *)
(* tree's k-th node in pre-order, and its depth is the length of that      *)
(* node's path from the start node.                                        *)
(***************************************************************************)
C3_DepthIsAncestorCount ==
    hierarchicalData # NoData =>
        LET flat == flattenHierarchy(hierarchicalData, 0, Null)
            paths == PathsOf(hierarchicalData)
        IN  /\ Len(flat.nodes) = Len(paths)
            /\ \A k \in 1..Len(paths) :
                  /\ flat.nodes[k].id = NodeAt(hierarchicalData, paths[k]).id
                  /\ flat.nodes[k].data.depth = Cardinality(ProperPrefixes(paths[k]))

C3_Witness ==
    /\ lastOp.op = "flattenHierarchy"
    /\ Len(nodes) = 3
    /\ nodes[1].data.depth = 0
    /\ nodes[2].data.depth = 1
    /\ nodes[3].data.depth = 2

(***************************************************************************)
(* C4.  On the flat graph of a tree (of unique ids) and any collapse set,  *)
(* filterCollapsedNodes keeps, in order, exactly the nodes none of whose   *)
(* strict ancestors is collapsed, and exactly the edges between kept       *)
(* nodes.                                                                  *)
(***************************************************************************)
C4_VisibleIds(data, collapsed) ==
    LET paths == PathsOf(data)
    IN  {NodeAt(data, paths[k]).id :
            k \in {j \in 1..Len(paths) :
                      \A q \in ProperPrefixes(paths[j]) : NodeAt(data, q).id \notin collapsed}}

C5_Twice(id) == toggleNodeExpansion(toggleNodeExpansion(Store, id), id)

\* the claim as made
C5_ToggleTwiceRestoresView ==
    hierarchicalData # NoData =>
        \A id \in NodeIdInputs :
            LET r == C5_Twice(id)
            IN  /\ r.collapsedNodeIds = collapsedNodeIds
                /\ Range(IdSeq(r.nodes)) = Range(IdSeq(nodes))
                /\ Range(EdgeSeq(r.edges)) = Range(EdgeSeq(edges))

\* as amended: the view after the second toggle is the whole tree filtered
\* by the original collapse set, whatever was rendered before
C5_ToggleTwiceRendersFilteredWhole ==
    hierarchicalData # NoData =>
        LET visible == FilteredWhole(hierarchicalData, collapsedNodeIds)
            wholeIds == IdSeq(visible.nodes)
            wholeEdges == EdgeSeq(visible.edges)
        IN  \A id \in NodeIdInputs :
                LET r == C5_Twice(id)
                IN  /\ r.collapsedNodeIds = collapsedNodeIds
                    /\ r.hierarchicalData = hierarchicalData
                    /\ IdSeq(r.nodes) = wholeIds
                    /\ EdgeSeq(r.edges) = wholeEdges
                    /\ (IdSeq(nodes) = wholeIds /\ EdgeSeq(edges) = wholeEdges)
                       => (IdSeq(r.nodes) = IdSeq(nodes) /\ EdgeSeq(r.edges) = EdgeSeq(edges))

\* the scenario of the specification: R with [A, B], A with [C]; A has been
\* collapsed ({R, A, B} shown) and expanded again ({R, A, B, C} shown)
C5_Witness ==
    /\ lastOp = [op |-> "toggleNodeExpansion", nodeId |-> "A"]
    /\ steps = 3
    /\ collapsedNodeIds = {}
    /\ IdSeq(nodes) = <<"R", "A", "C", "B">>
    /\ EdgeSeq(edges) = <<<<"R", "A">>, <<"A", "C">>, <<"R", "B">>>>

(***************************************************************************)
(* C6.  After updateNodeLabel(id, X), for an id of the hierarchy, the      *)
(* hierarchy node with the id has label X and so has the rendered node     *)
(* with the id, if there is one; likewise for updateNodeSummary and        *)
(* updateNodeDetails and their fields.                                     *)
(***************************************************************************)
C6_FieldIs(s, id, field, value) ==
    /\ id \in IdsOf(s.hierarchicalData)
    /\ NodeAt(s.hierarchicalData, PathOfId(s.hierarchicalData, id))[field] = value
    /\ \A i \in 1..Len(s.nodes) : s.nodes[i].id = id => s.nodes[i].data[field] = value

C6_UpdateSetsField ==
    hierarchicalData # NoData =>
        \A id \in HierarchyIds, X \in TextInputs :
            /\ C6_FieldIs(updateNodeLabel(Store, id, X), id, "label", X)
            /\ C6_FieldIs(updateNodeSummary(Store, id, X), id, "summary", X)
            /\ C6_FieldIs(updateNodeDetails(Store, id, X), id, "details", X)

C6_Witness ==
    /\ lastOp = [op |-> "updateNodeLabel", nodeId |-> "C", value |-> "X"]
    /\ hierarchicalData.children[1].children[1].id = "C"
    /\ hierarchicalData.children[1].children[1].label = "X"
    /\ \E i \in 1..Len(nodes) : nodes[i].id = "C" /\ nodes[i].data.label = "X"

(***************************************************************************)
(* C7.  deleteNode(rootId), rootId the id of the hierarchy's root, changes *)
(* nothing of the store state.                                             *)
(***************************************************************************)
C7_DeleteRootChangesNothing ==
    hierarchicalData # NoData => deleteNode(Store, hierarchicalData.id) = Store

C7_Witness ==
    /\ lastOp = [op |-> "deleteNode", nodeId |-> "R"]
    /\ hierarchicalData # NoData
    /\ hierarchicalData.id = "R"
    /\ selectedNodeId = "R"
    /\ Len(nodes) = 4

(***************************************************************************)
(* C8.  After deleteNode(id), id a non-root id of the hierarchy, no node   *)
(* of id's subtree is in the hierarchy or rendered, no rendered edge ends  *)
(* at one, and every other node is still in the hierarchy with its own     *)
(* fields and with its children in the order they had.                     *)
(***************************************************************************)
C8_Deleted(s, r, id) ==
    LET old == s.hierarchicalData
        new == r.hierarchicalData
        gone == SubtreeIds(old, id)
    IN  /\ IdsOf(new) = IdsOf(old) \ gone
        /\ UniqueIds(new)
        /\ Range(IdSeq(r.nodes)) \cap gone = {}
        /\ \A i \in 1..Len(r.edges) :
              r.edges[i].source \notin gone /\ r.edges[i].target \notin gone
        /\ \A x \in IdsOf(old) \ gone :
              LET before == NodeAt(old, PathOfId(old, x))
                  after == NodeAt(new, PathOfId(new, x))
                  Stays(c) == c \notin gone
              IN  /\ OwnFields(after) = OwnFields(before)
                  /\ ChildIds(after) = SelectSeq(ChildIds(before), Stays)

C8_DeleteRemovesSubtree ==
    hierarchicalData # NoData =>
        \A id \in HierarchyIds \ {hierarchicalData.id} :
            C8_Deleted(Store, deleteNode(Store, id), id)

C8_Witness ==
    /\ lastOp = [op |-> "deleteNode", nodeId |-> "A"]
    /\ HierarchyIds = {"R", "B"}
    /\ IdSeq(nodes) = <<"R", "B">>
    /\ EdgeSeq(edges) = <<<<"R", "B">>>>

(***************************************************************************)
(* C9.  addNode(parentId, data), parentId an id of the hierarchy, appends  *)
(* one new node as the parent's last child, with the supplied label,       *)
(* leaving every other node and the order of the children as they were;    *)
(* the flat view holds the new node one level below its parent, with an    *)
(* edge from the parent.  With a parentId the hierarchy does not hold, the *)
(* hierarchy is unchanged.                                                 *)
(***************************************************************************)
C9_Added(old, new, rendered, rels, newId, parentId, label) ==
    LET paths == PathsOf(old)
        parentPath == PathOfId(old, parentId)
        parent == NodeAt(new, parentPath)
        added == parent.children[Len(parent.children)]
    IN  /\ newId \notin IdsOf(old)
        /\ TreeSize(new) = Len(paths) + 1
        /\ added.id = newId
        /\ added.label = label
        /\ added.children = <<>>
        /\ \A k \in 1..Len(paths) :
              LET before == NodeAt(old, paths[k])
                  after == NodeAt(new, paths[k])
              IN  /\ OwnFields(after) = OwnFields(before)
                  /\ ChildIds(after) = IF paths[k] = parentPath
                                       THEN Append(ChildIds(before), newId)
                                       ELSE ChildIds(before)
        /\ \E i, j \in 1..Len(rendered) :
              /\ rendered[i].id = parentId
              /\ rendered[j].id = newId
              /\ rendered[j].data.label = label
              /\ rendered[j].data.depth = rendered[i].data.depth + 1
        /\ <<parentId, newId>> \in Range(EdgeSeq(rels))

C9_NewId == "node-" \o ToString(now + 1)

\* the claim as made: the new node carries the label of data
C9_AddAppendsSuppliedLabel ==
    hierarchicalData # NoData =>
        \A data \in NewNodeInputs :
            /\ \A parentId \in HierarchyIds :
                  LET r == addNode(Store, now + 1, parentId, data)
                      new == r.hierarchicalData
                      rendered == r.nodes
                      rels == r.edges
                  IN  C9_Added(hierarchicalData, new, rendered, rels, C9_NewId,
                               parentId, data.label)
            /\ addNode(Store, now + 1, MissingId, data).hierarchicalData = hierarchicalData

\* as amended: the label of data when it is not empty, and "New Node" when
\* it is empty or absent
C9_AddAppendsChild ==
    hierarchicalData # NoData =>
        \A data \in NewNodeInputs :
            /\ \A parentId \in HierarchyIds :
                  LET r == addNode(Store, now + 1, parentId, data)
                      new == r.hierarchicalData
                      rendered == r.nodes
                      rels == r.edges
                  IN  C9_Added(hierarchicalData, new, rendered, rels, C9_NewId,
                               parentId,
                               IF "label" \in DOMAIN data /\ data.label # ""
                               THEN data.label ELSE "New Node")
            /\ addNode(Store, now + 1, MissingId, data).hierarchicalData = hierarchicalData

\* a child added to B, which had no children list, and rendered below it
C9_Witness ==
    /\ lastOp = [op |-> "addNode", nodeId |-> "B"]
    /\ hierarchicalData.id = "R"
    /\ Len(hierarchicalData.children) = 2
    /\ hierarchicalData.children[2].id = "B"
    /\ HasChildrenField(hierarchicalData.children[2])
    /\ Len(hierarchicalData.children[2].children) = 1
    /\ hierarchicalData.children[2].children[1].label = "New Child"
    /\ \E j \in 1..Len(nodes) :
          /\ nodes[j].id = hierarchicalData.children[2].children[1].id
          /\ nodes[j].data.depth = 2

(***************************************************************************)
(* C10.  drillDown(t), t the explicit id or else the selection, t a node   *)
(* of the hierarchy with a child: the rendered nodes and edges are those   *)
(* of flatten(subtree at t), t at depth 0, whatever collapsedNodeIds       *)
(* holds; currentDrillNodeId = t; selectedNodeId is null; drillStack is    *)
(* the old stack with the previous currentDrillNodeId appended if there    *)
(* was one.                                                                *)
(***************************************************************************)
C10_Target(nodeId) == IF nodeId # Null THEN nodeId ELSE selectedNodeId

C10_DrillDownShowsSubtree ==
    hierarchicalData # NoData =>
        \A nodeId \in NodeIdInputs \cup {Null} :
            LET t == C10_Target(nodeId)
                r == drillDown(Store, nodeId)
            IN  (/\ t \in HierarchyIds
                 /\ Children(NodeAt(hierarchicalData, PathOfId(hierarchicalData, t))) # <<>>)
                => LET sub == NodeAt(hierarchicalData, PathOfId(hierarchicalData, t))
                       flat == flattenHierarchy(sub, 0, Null)
                   IN  /\ Unplaced(r.nodes) = Unplaced(flat.nodes)
                       /\ r.edges = flat.edges
                       /\ Len(r.nodes) = TreeSize(sub)
                       /\ r.nodes[1].id = t
                       /\ r.nodes[1].data.depth = 0
                       /\ r.currentDrillNodeId = t
                       /\ r.selectedNodeId = Null
                       /\ r.drillStack = IF currentDrillNodeId # Null
                                         THEN Append(drillStack, currentDrillNodeId)
                                         ELSE drillStack
                       /\ r.hierarchicalData = hierarchicalData
                       /\ r.collapsedNodeIds = collapsedNodeIds

\* drilled into A from a drill into R, with A collapsed: C is shown
C10_Witness ==
    /\ lastOp.op = "drillDown"
    /\ currentDrillNodeId = "A"
    /\ drillStack = <<"R">>
    /\ "A" \in collapsedNodeIds
    /\ selectedNodeId = Null
    /\ IdSeq(nodes) = <<"A", "C">>
    /\ nodes[1].data.depth = 0

(***************************************************************************)
(* C11.  From a whole-tree view (currentDrillNodeId is null), a successful *)
(* drillDown(x) followed immediately by drillUp() renders the node set and *)
(* the edge set that were rendered before the drillDown, whatever the      *)
(* collapse set is.                                                        *)
(***************************************************************************)
C11_RoundTrip(x) == drillUp(drillDown(Store, x))

C11_SameView(r) ==
    /\ Range(IdSeq(r.nodes)) = Range(IdSeq(nodes))
    /\ Range(EdgeSeq(r.edges)) = Range(EdgeSeq(edges))

C11_DrillUpRestoresView ==
    (hierarchicalData # NoData /\ currentDrillNodeId = Null) =>
        \A x \in HierarchyIds :
            (drillDown(Store, x).currentDrillNodeId = x) => C11_SameView(C11_RoundTrip(x))

(***************************************************************************)
(* C12.  As stated: the drill stack is empty exactly when                  *)
(* currentDrillNodeId is null.                                             *)
(***************************************************************************)
C12_StackEmptyIffWholeTree == (drillStack = <<>>) <=> (currentDrillNodeId = Null)

C12_Drillable(id) ==
    /\ id \in HierarchyIds
    /\ Children(NodeAt(hierarchicalData, PathOfId(hierarchicalData, id))) # <<>>

C12_Popped(r) ==
    LET top == drillStack[Len(drillStack)]
    IN  /\ r.drillStack = SubSeq(drillStack, 1, Len(drillStack) - 1)
        /\ IF C12_Drillable(top)
           THEN /\ r.currentDrillNodeId = top
                /\ Unplaced(r.nodes) =
                       Unplaced(flattenHierarchy(
                           NodeAt(hierarchicalData, PathOfId(hierarchicalData, top)),
                           0, Null).nodes)
           ELSE /\ r.currentDrillNodeId = currentDrillNodeId
                /\ r.nodes = nodes

(***************************************************************************)
(* C12, amended.  In the whole-tree view (currentDrillNodeId is null) the  *)
(* drill stack is empty; the stack holds the earlier drill targets only,   *)
(* so it is empty one level deep as well.  drillUp on an empty stack       *)
(* returns to the whole-tree view with an empty stack; on a non-empty      *)
(* stack it removes the last id and re-drills into it when that id still   *)
(* names a node with children, and otherwise only removes it.              *)
(***************************************************************************)
C12_StackHoldsEarlierTargets ==
    /\ currentDrillNodeId = Null => drillStack = <<>>
    /\ hierarchicalData # NoData =>
           LET r == drillUp(Store)
           IN  IF drillStack = <<>>
               THEN /\ r.currentDrillNodeId = Null
                    /\ r.drillStack = <<>>
                    /\ IdSeq(r.nodes) = IdSeq(flattenHierarchy(hierarchicalData, 0, Null).nodes)
               ELSE C12_Popped(r)

C12_Witness ==
    /\ lastOp.op = "drillUp"
    /\ currentDrillNodeId = "R"
    /\ drillStack = <<>>
    /\ IdSeq(nodes) = <<"R", "A", "C", "B">>

\* the positions in maps of the records that activeMapId names
ActiveRecords == {i \in 1..Len(maps) : maps[i].id = activeMapId}

(***************************************************************************)
(* C14.  After every completed operation, and so after every completed    *)
(* createMap, switchMap, deleteMap, initializeFromData, updateNodeLabel,   *)
(* updateNodeSummary, updateNodeDetails, addNode and deleteNode, the       *)
(* hierarchicalData of the active map's record equals the working          *)
(* hierarchicalData.                                                       *)
(***************************************************************************)
C14_ActiveRecordHoldsHierarchy ==
    \A i \in ActiveRecords : maps[i].hierarchicalData = hierarchicalData

C14_Witness ==
    /\ lastOp.op = "deleteNode"
    /\ Len(maps) = 2
    /\ ActiveRecords = {2}
    /\ IdsOf(hierarchicalData) = {"R", "B"}
    /\ maps[2].hierarchicalData = hierarchicalData
    /\ maps[1].hierarchicalData # hierarchicalData

(***************************************************************************)
(* C15.  After every completed operation the working collapsedNodeIds and  *)
(* layoutMode equal the collapsedNodeIds and layoutMode of the active      *)
(* map's record, in particular right after a createMap that follows a      *)
(* collapse or a change of layout mode in the previous map.                *)
(***************************************************************************)
C15_WorkingViewIsActiveRecord ==
    \A i \in ActiveRecords :
        /\ SetOf(maps[i].collapsedNodeIds) = collapsedNodeIds
        /\ maps[i].layoutMode = layoutMode

(***************************************************************************)
(* C18.  updateNodeLabel, updateNodeSummary, updateNodeDetails and         *)
(* deleteNode called with an id that is not in the hierarchy leave the     *)
(* hierarchy, the rendered node set, the rendered edge set, the selection  *)
(* and the collapse set as they were, from any reachable state.            *)
(***************************************************************************)
C18_Same(r) ==
    /\ r.hierarchicalData = hierarchicalData
    /\ Range(IdSeq(r.nodes)) = Range(IdSeq(nodes))
    /\ Range(EdgeSeq(r.edges)) = Range(EdgeSeq(edges))
    /\ r.selectedNodeId = selectedNodeId
    /\ r.collapsedNodeIds = collapsedNodeIds

C18_MissingIdIsNoOp ==
    /\ \A text \in TextInputs :
           /\ C18_Same(updateNodeLabel(Store, MissingId, text))
           /\ C18_Same(updateNodeSummary(Store, MissingId, text))
           /\ C18_Same(updateNodeDetails(Store, MissingId, text))
    /\ C18_Same(deleteNode(Store, MissingId))

\* the part of C18 that is about the three updates
C18_UpdateOfMissingIdIsNoOp ==
    \A text \in TextInputs :
        /\ updateNodeLabel(Store, MissingId, text) = Store
        /\ updateNodeSummary(Store, MissingId, text) = Store
        /\ updateNodeDetails(Store, MissingId, text) = Store

(***************************************************************************)
(* C13.  Once a map exists, every createMap, switchMap and deleteMap call, *)
(* with any id, leaves the map collection non-empty and activeMapId the id *)
(* of a map of the collection; deleteMap on the sole remaining map raises  *)
(* the notice and changes nothing.                                         *)
(***************************************************************************)
C13_SoleMapIsKept ==
    Len(maps) = 1 =>
        \A mapId \in MapIdInputs :
            /\ deleteMap(Store, mapId) = Store
            /\ deleteMapAlert(Store, mapId) # Null

C13_MapsStayNonEmpty ==
    [][maps # <<>> =>
          /\ maps' # <<>>
          /\ \E i \in 1..Len(maps') : maps'[i].id = activeMapId'
          /\ C13_SoleMapIsKept]_vars

\* drillDown(nodeId) has no target, or its target is no node with children
C17_Fails(nodeId) ==
    LET target == C10_Target(nodeId)
    IN  \/ target = Null
        \/ target \notin HierarchyIds
        \/ ~C12_Drillable(target)

C17_Rejected(nodeId) ==
    /\ drillDown(Store, nodeId) = Store
    /\ drillDownAlert(Store, nodeId) # Null

(***************************************************************************)
(* C17.  drillDown called with no id and no selection, or with a target    *)
(* that is not in the hierarchy or has no children, raises an alert and    *)
(* leaves the whole store state unchanged.                                 *)
(***************************************************************************)
C17_FailedDrillDownIsReported ==
    \A nodeId \in NodeIdInputs \cup {Null} : C17_Fails(nodeId) => C17_Rejected(nodeId)

\* the same with a hierarchy loaded
C17_FailedDrillDownIsReportedOnceLoaded ==
    hierarchicalData # NoData =>
        \A nodeId \in NodeIdInputs \cup {Null} : C17_Fails(nodeId) => C17_Rejected(nodeId)

\* without a hierarchy drillDown changes nothing and raises no alert
C17_SilentWithoutHierarchy ==
    hierarchicalData = NoData =>
        \A nodeId \in NodeIdInputs \cup {Null} :
            /\ drillDown(Store, nodeId) = Store
            /\ drillDownAlert(Store, nodeId) = Null

\* the file is not JSON, or its root lacks id or label
C19_Invalid(content) ==
    \/ "json" \notin DOMAIN content
    \/ content.json = NoData
    \/ "id" \notin DOMAIN content.json
    \/ "label" \notin DOMAIN content.json

C19_Imported(r, content) ==
    /\ Len(r.state.maps) = Len(maps) + 1
    /\ SubSeq(r.state.maps, 1, Len(maps)) = maps
    /\ r.state.maps[Len(maps) + 1].id = r.state.activeMapId
    /\ r.state.maps[Len(maps) + 1].hierarchicalData = content.json
    /\ \A i \in 1..Len(maps) : maps[i].id # r.state.activeMapId

(***************************************************************************)
(* C19.  An import whose text is not JSON or whose root lacks id or label  *)
(* raises an alert that says why, creates no map and leaves the store      *)
(* state as it was; an import whose root has id and label adds exactly one *)
(* map to the collection and makes it the active map.                      *)
(***************************************************************************)
C19_ImportValidatesRoot ==
    \A content \in ImportInputs, mapName \in ImportNameInputs :
        LET r == handleImport(Store, now + 1, content, mapName)
        IN  IF C19_Invalid(content)
            THEN /\ r.state = Store
                 /\ r.alert \in {"Import failed: Failed to parse JSON: SyntaxError",
                                 "Import failed: Failed to parse JSON: TypeError",
                                 "Import failed: Failed to parse JSON: " \o InvalidStructure}
            ELSE C19_Imported(r, content)

C19_WitnessImported ==
    /\ lastOp.op = "handleImport"
    /\ lastOp.content = [json |-> ImportedData]
    /\ lastOp.alert = Null
    /\ Len(maps) = 2
    /\ maps[2].id = activeMapId
    /\ hierarchicalData = ImportedData
    /\ IdSeq(nodes) = <<"I", "J">>

C19_Witness ==
    /\ lastOp.op = "handleImport"
    /\ lastOp.content = [json |-> [id |-> "I"]]
    /\ lastOp.alert = "Import failed: Failed to parse JSON: " \o InvalidStructure
    /\ Len(maps) = 1

\* the view is the whole tree filtered by the collapse set, and the active
\* map's record holds that collapse set
C16_Saved ==
    /\ ActiveRecords # {}
    /\ currentDrillNodeId = Null
    /\ \A i \in ActiveRecords : SetOf(maps[i].collapsedNodeIds) = collapsedNodeIds
    /\ IdSeq(nodes) = IdSeq(FilteredWhole(hierarchicalData, collapsedNodeIds).nodes)

\* switchMap to a map of a store loaded from localStorage: the record holds
\* a list, the working state the set of its members and the view switchMap
\* renders for the record before the save
C16_SwitchMapRehydrates ==
    \A persisted \in partialize(Store) :
        \A i \in 1..Len(maps) :
            LET loaded == switchMap(rehydrate(persisted), maps[i].id)
                live == switchMap(Store, maps[i].id)
            IN  /\ "array" \in DOMAIN persisted.maps[i].collapsedNodeIds
                /\ Range(persisted.maps[i].collapsedNodeIds.array)
                       = SetOf(maps[i].collapsedNodeIds)
                /\ loaded.collapsedNodeIds = SetOf(maps[i].collapsedNodeIds)
                /\ Unplaced(loaded.nodes) = Unplaced(live.nodes)
                /\ loaded.edges = live.edges

\* the load of the active map when the page is opened again
C16_HomeRestoresView ==
    C16_Saved =>
        \A persisted \in partialize(Store) :
            LET r == homeEffect(rehydrate(persisted), now + 1)
            IN  /\ r.collapsedNodeIds = collapsedNodeIds
                /\ IdSeq(r.nodes) = IdSeq(nodes)
                /\ EdgeSeq(r.edges) = EdgeSeq(edges)

(***************************************************************************)
(* C16.  A saved map record holds its collapsedNodeIds as a list; loading   *)
(* it, by switchMap or by the first load of the page, makes a set with the *)
(* same members, and the view after the load shows the nodes and edges     *)
(* that were visible when the state was saved.                             *)
(***************************************************************************)
C16_SaveLoadKeepsCollapsedView == C16_SwitchMapRehydrates /\ C16_HomeRestoresView

\* every state of a sequence of writes is the state before the operation or
\* the state after it
C20_Atomic(writes, after) ==
    \A k \in 1..Len(writes) : writes[k] = Store \/ writes[k] = after

(***************************************************************************)
(* C20.  Every store operation is atomic to a subscriber and to the        *)
(* persistence write that each state write triggers: no state written by   *)
(* deleteMap or switchMap is an intermediate state of the operation, such  *)
(* as one whose activeMapId names no map of the collection or one whose    *)
(* activeMapId is the new map's while the hierarchy is the previous map's. *)
(***************************************************************************)
C20_WritesAreWholeOperations ==
    \A mapId \in MapIdInputs :
        /\ C20_Atomic(deleteMapWrites(Store, mapId), deleteMap(Store, mapId))
        /\ C20_Atomic(switchMapWrites(Store, mapId), switchMap(Store, mapId))

\* the last state an operation writes is the state the operation leaves
C20_LastWriteIsResult ==
    \A mapId \in MapIdInputs :
        LET dw == deleteMapWrites(Store, mapId)
            sw == switchMapWrites(Store, mapId)
        IN  /\ deleteMap(Store, mapId) = IF dw = <<>> THEN Store ELSE dw[Len(dw)]
            /\ switchMap(Store, mapId) = IF sw = <<>> THEN Store ELSE sw[Len(sw)]

\* the first of the claim's examples: while deleteMap deletes the active
\* map, no written state has an activeMapId that names no map
C20_DeleteMapWritesNameAMap ==
    \A mapId \in MapIdInputs :
        LET dw == deleteMapWrites(Store, mapId)
        IN  \A k \in 1..Len(dw) : \E i \in 1..Len(dw[k].maps) : dw[k].maps[i].id = dw[k].activeMapId

(***************************************************************************)
(* C21.  After a toggleNodeExpansion, expandAll or collapseAll, every      *)
(* rendered node that has children has isExpanded = FALSE exactly when its *)
(* id is in collapsedNodeIds.                                              *)
(***************************************************************************)
C21_ExpansionIsShown ==
    lastOp.op \in {"toggleNodeExpansion", "expandAll", "collapseAll"} =>
        \A i \in 1..Len(nodes) :
            nodes[i].data.hasChildren =>
                (~nodes[i].data.isExpanded <=> nodes[i].id \in collapsedNodeIds)

\* the same for the node a toggle collapses
C21_CollapsedNodeIsShownCollapsed ==
    (lastOp.op = "toggleNodeExpansion" /\ lastOp.nodeId \in collapsedNodeIds) =>
        \A i \in 1..Len(nodes) :
            nodes[i].id = lastOp.nodeId => ~nodes[i].data.isExpanded

C23_ShowsDrillSubtree(r) ==
    LET t == currentDrillNodeId
        flat == flattenHierarchy(NodeAt(r.hierarchicalData, PathOfId(r.hierarchicalData, t)),
                                 0, Null)
    IN  /\ Unplaced(r.nodes) = Unplaced(flat.nodes)
        /\ r.edges = flat.edges

\* the ids strictly inside the drill subtree
C23_Inside ==
    IF hierarchicalData # NoData /\ currentDrillNodeId \in HierarchyIds
                                 /\ UniqueIds(hierarchicalData)
    THEN SubtreeIds(hierarchicalData, currentDrillNodeId) \ {currentDrillNodeId}
    ELSE {}

(***************************************************************************)
(* C23.  While drilled into t, after an addNode below a node strictly      *)
(* inside t's subtree or a deleteNode of such a node, the rendered nodes   *)
(* and edges are flatten(subtree at t) of the updated hierarchy, t at      *)
(* depth 0, without the collapse filter.                                   *)
(***************************************************************************)
C23_EditsKeepDrillView ==
    \A id \in C23_Inside :
        /\ C23_ShowsDrillSubtree(deleteNode(Store, id))
        /\ \A newNodeData \in NewNodeInputs :
               C23_ShowsDrillSubtree(addNode(Store, now + 1, id, newNodeData))

C24_Toggled(r, nodeId) ==
    LET newSet == IF nodeId \in collapsedNodeIds
                  THEN collapsedNodeIds \ {nodeId} ELSE collapsedNodeIds \cup {nodeId}
        visible == FilteredWhole(hierarchicalData, newSet)
    IN  /\ r.collapsedNodeIds = newSet
        /\ \A i \in ActiveRecords : r.maps[i].collapsedNodeIds = JsSet(newSet)
        /\ \A i \in 1..Len(maps) \ ActiveRecords : r.maps[i] = maps[i]
        /\ IdSeq(r.nodes) = IdSeq(visible.nodes)
        /\ r.edges = visible.edges
        /\ r.nodes[1].id = hierarchicalData.id
        /\ r.nodes[1].data.depth = 0

(***************************************************************************)
(* C24.  toggleNodeExpansion(id), in any drill state, adds id to           *)
(* collapsedNodeIds if it is absent and removes it if it is present,       *)
(* leaves the other members, writes the new set into the active map's      *)
(* record and renders filterCollapsed(flatten(whole hierarchy), new set),  *)
(* not the drilled subtree.                                                *)
(***************************************************************************)
C24_ToggleFlipsMembership ==
    hierarchicalData # NoData =>
        \A nodeId \in NodeIdInputs : C24_Toggled(toggleNodeExpansion(Store, nodeId), nodeId)

\* A is collapsed while the view is drilled into A: the whole tree is shown,
\* without C
C24_Witness ==
    /\ lastOp.op = "toggleNodeExpansion"
    /\ currentDrillNodeId = "A"
    /\ collapsedNodeIds = {"A"}
    /\ IdSeq(nodes) = <<"R", "A", "B">>
    /\ \A i \in ActiveRecords : maps[i].collapsedNodeIds = JsSet({"A"})

\* path p comes before path q in pre-order: p is a proper prefix of q, or p
\* turns to an earlier child where the two part
C25_Before(p, q) ==
    \/ Len(p) < Len(q) /\ SubSeq(q, 1, Len(p)) = p
    \/ \E k \in 1..Len(p) :
           /\ k <= Len(q)
           /\ SubSeq(p, 1, k - 1) = SubSeq(q, 1, k - 1)
           /\ p[k] < q[k]

\* the flat node made of the tree's node at path p
C25_IsNodeAt(flatNode, p) ==
    LET node == NodeAt(hierarchicalData, p)
    IN  /\ flatNode.id = node.id
        /\ flatNode.data.label = node.label
        /\ flatNode.data.isExpanded
        /\ flatNode.data.hasChildren = (Children(node) # <<>>)
        /\ flatNode.data.childCount = Len(Children(node))

\* the flat edge into the tree's node at path p, which is not the root's
C25_IsEdgeInto(flatEdge, p) ==
    /\ flatEdge.source = NodeAt(hierarchicalData, SubSeq(p, 1, Len(p) - 1)).id
    /\ flatEdge.target = NodeAt(hierarchicalData, p).id

C26_Updated(data, r, nodeId, patch) ==
    /\ PathsOf(r) = PathsOf(data)
    /\ \A k \in 1..Len(PathsOf(data)) :
           LET p == PathsOf(data)[k]
               old == NodeAt(data, p)
               new == NodeAt(r, p)
           IN  /\ HasChildrenField(new) = HasChildrenField(old)
               /\ OwnFields(new) = IF old.id = nodeId THEN Spread(OwnFields(old), patch)
                                   ELSE OwnFields(old)

(***************************************************************************)
(* C26.  updateHierarchicalData(tree, id, patch) returns a tree of the     *)
(* same shape and child order in which every node whose id is id, at any   *)
(* depth and on any branch, below another matching node included, has its  *)
(* fields merged with patch and every other node is unchanged; with no     *)
(* matching node the result equals the input.                              *)
(***************************************************************************)
C26_UpdateMergesEveryMatch ==
    hierarchicalData # NoData =>
        \A nodeId \in TreeIds \cup {MissingId}, text \in TextInputs :
            LET r == updateHierarchicalData(hierarchicalData, nodeId, [label |-> text])
            IN  /\ C26_Updated(hierarchicalData, r, nodeId, [label |-> text])
                /\ nodeId \notin IdsOf(hierarchicalData) => r = hierarchicalData

\* no node with the id is below another node with the id
C26_NoNestedMatch(data, nodeId) ==
    \A i, j \in 1..Len(PathsOf(data)) :
        (/\ NodeAt(data, PathsOf(data)[i]).id = nodeId
         /\ NodeAt(data, PathsOf(data)[j]).id = nodeId)
        => PathsOf(data)[i] \notin ProperPrefixes(PathsOf(data)[j])

\* the same for the ids that no node carries below another node that carries it
C26_UpdateMergesUnnestedMatches ==
    hierarchicalData # NoData =>
        \A nodeId \in TreeIds \cup {MissingId}, text \in TextInputs :
            C26_NoNestedMatch(hierarchicalData, nodeId) =>
                C26_Updated(hierarchicalData,
                            updateHierarchicalData(hierarchicalData, nodeId, [label |-> text]),
                            nodeId, [label |-> text])

\* the rendered node new is the rendered node old, with the text field set
\* if its id is nodeId
C27_SameNodeBut(old, new, nodeId, field, value) ==
    /\ new.id = old.id
    /\ new.type = old.type
    /\ new.position = old.position
    /\ DOMAIN new.data = DOMAIN old.data
    /\ \A f \in DOMAIN old.data \ {field} : new.data[f] = old.data[f]
    /\ new.data[field] = IF old.id = nodeId THEN value ELSE old.data[field]

C27_OnlyTextChanged(r, nodeId, field, value) ==
    /\ C26_Updated(hierarchicalData, r.hierarchicalData, nodeId, (field :> value))
    /\ Len(r.nodes) = Len(nodes)
    /\ \A i \in 1..Len(nodes) : C27_SameNodeBut(nodes[i], r.nodes[i], nodeId, field, value)
    /\ r.edges = edges
    /\ r.collapsedNodeIds = collapsedNodeIds
    /\ r.selectedNodeId = selectedNodeId
    /\ r.drillStack = drillStack
    /\ r.currentDrillNodeId = currentDrillNodeId
    /\ r.layoutMode = layoutMode
    /\ r.activeMapId = activeMapId
    /\ Len(r.maps) = Len(maps)
    /\ \A i \in 1..Len(maps) :
           r.maps[i] = IF i \in ActiveRecords
                       THEN [maps[i] EXCEPT !.hierarchicalData = r.hierarchicalData]
                       ELSE maps[i]

(***************************************************************************)
(* C27.  updateNodeLabel, updateNodeSummary and updateNodeDetails change   *)
(* the one text field of the hierarchy node and of the rendered node with  *)
(* the id and nothing else: the rendered ids and their order, positions,   *)
(* depth, hasChildren, childCount, the edges, collapsedNodeIds,            *)
(* selectedNodeId, the drill state and layoutMode are as before, so the    *)
(* view is neither flattened nor laid out again.                           *)
(***************************************************************************)
C27_UpdateChangesOnlyText ==
    hierarchicalData # NoData =>
        \A nodeId \in NodeIdInputs, text \in TextInputs :
            /\ C27_OnlyTextChanged(updateNodeLabel(Store, nodeId, text), nodeId, "label", text)
            /\ C27_OnlyTextChanged(updateNodeSummary(Store, nodeId, text), nodeId, "summary", text)
            /\ C27_OnlyTextChanged(updateNodeDetails(Store, nodeId, text), nodeId, "details", text)

\* the label of A is set while A is shown collapsed
C27_Witness ==
    /\ lastOp = [op |-> "updateNodeLabel", nodeId |-> "A", value |-> "X"]
    /\ collapsedNodeIds = {"A"}
    /\ IdSeq(nodes) = <<"R", "A", "B">>
    /\ nodes[2].data.label = "X"
    /\ nodes[2].data.hasChildren
    /\ hierarchicalData.children[1].label = "X"

\* the array laid is the array ns with nothing but positions replaced
C28_OnlyPositions(ns, laid) ==
    /\ Len(laid) = Len(ns)
    /\ \A i \in 1..Len(ns) : laid[i] = [ns[i] EXCEPT !.position = laid[i].position]
    /\ ns = <<>> => laid = ns

\* the store r differs from the current one in positions at most, maps and
\* layoutMode aside
C28_LayoutOnly(r) ==
    /\ C28_OnlyPositions(nodes, r.nodes)
    /\ r.edges = edges
    /\ r.hierarchicalData = hierarchicalData
    /\ r.collapsedNodeIds = collapsedNodeIds
    /\ r.selectedNodeId = selectedNodeId
    /\ r.drillStack = drillStack
    /\ r.currentDrillNodeId = currentDrillNodeId
    /\ r.activeMapId = activeMapId

(***************************************************************************)
(* C28.  setLayoutMode(mode) and resetLayout() run the layout over the     *)
(* rendered arrays and nothing else: the rendered ids, their order and the *)
(* node data, the edges, the hierarchy, collapsedNodeIds, the selection    *)
(* and the drill state are as before and only positions may differ; every  *)
(* engine returns the nodes it was given, in their order, with position    *)
(* replaced, and an empty array for an empty one.  setLayoutMode stores     *)
(* mode in layoutMode and in the active map record; resetLayout leaves     *)
(* both alone.                                                             *)
(***************************************************************************)
C28_LayoutOnlyMovesNodes ==
    /\ \A mode \in LayoutModes :
           LET r == setLayoutMode(Store, mode)
           IN  /\ C28_LayoutOnly(r)
               /\ r.nodes = computeLayout(nodes, edges, mode)
               /\ r.layoutMode = mode
               /\ Len(r.maps) = Len(maps)
               /\ \A i \in 1..Len(maps) :
                      r.maps[i] = IF i \in ActiveRecords
                                  THEN [maps[i] EXCEPT !.layoutMode = mode]
                                  ELSE maps[i]
    /\ LET r == resetLayout(Store)
       IN  /\ C28_LayoutOnly(r)
           /\ r.nodes = computeLayout(nodes, edges, layoutMode)
           /\ r.layoutMode = layoutMode
           /\ r.maps = maps

\* the mode is set to radial while A is collapsed: the three rendered nodes
\* are placed by the radial engine and the record holds the mode
C28_Witness ==
    /\ lastOp.op = "setLayoutMode"
    /\ layoutMode = "radial"
    /\ collapsedNodeIds = {"A"}
    /\ IdSeq(nodes) = <<"R", "A", "B">>
    /\ nodes[1].position = [x |-> 0, y |-> 0]
    /\ ActiveRecords # {}
    /\ \A i \in ActiveRecords : maps[i].layoutMode = "radial"

\* the mode is set while nothing is rendered
C28_WitnessEmpty ==
    /\ lastOp.op = "setLayoutMode"
    /\ nodes = <<>>
    /\ layoutMode = "graph"

(***************************************************************************)
(* C29.  After expandAll(), from any state with a hierarchy,               *)
(* collapsedNodeIds is empty, the active map record's collapsedNodeIds is  *)
(* empty, and the rendered nodes and edges are the flattening of the whole *)
(* hierarchy: all N nodes and N-1 edges, whatever was collapsed or drilled *)
(* into before.                                                            *)
(***************************************************************************)
C29_ExpandAllShowsWholeTree ==
    hierarchicalData # NoData =>
        LET r == expandAll(Store)
            flat == flattenHierarchy(hierarchicalData, 0, Null)
        IN  /\ r.collapsedNodeIds = {}
            /\ \A i \in 1..Len(r.maps) :
                   r.maps[i].id = r.activeMapId => SetOf(r.maps[i].collapsedNodeIds) = {}
            /\ Unplaced(r.nodes) = Unplaced(flat.nodes)
            /\ \A i \in 1..Len(r.nodes) : r.nodes[i].type = flat.nodes[i].type
            /\ r.edges = flat.edges
            /\ Len(r.nodes) = TreeSize(hierarchicalData)
            /\ Len(r.edges) = TreeSize(hierarchicalData) - 1
            /\ r.hierarchicalData = hierarchicalData

\* expandAll has acted in a view drilled into A: the whole tree is rendered
\* from its root and the record's set is empty
C29_Witness ==
    /\ lastOp.op = "expandAll"
    /\ currentDrillNodeId = "A"
    /\ collapsedNodeIds = {}
    /\ nodes[1].id = hierarchicalData.id
    /\ Len(nodes) = TreeSize(hierarchicalData)
    /\ Len(nodes) > 3
    /\ Len(edges) = Len(nodes) - 1
    /\ ActiveRecords # {}
    /\ \A i \in ActiveRecords : SetOf(maps[i].collapsedNodeIds) = {}

\* without a hierarchy nothing is rendered and nothing is collapsed
C29_NothingShownWithoutHierarchy ==
    hierarchicalData = NoData => nodes = <<>> /\ edges = <<>> /\ collapsedNodeIds = {}

\* the ids of the rendered nodes that have children in the hierarchy and are
\* not its root
C30_RenderedParents ==
    {id \in {nodes[i].id : i \in 1..Len(nodes)} :
        /\ id # hierarchicalData.id
        /\ \E i \in 1..Len(PathsOf(hierarchicalData)) :
               LET n == NodeAt(hierarchicalData, PathsOf(hierarchicalData)[i])
               IN  n.id = id /\ Children(n) # <<>>}

\* the same set, read from the hasChildren flags of the rendered nodes
C30_FlaggedParents ==
    {nodes[i].id : i \in {j \in 1..Len(nodes) :
                             nodes[j].id # hierarchicalData.id /\ nodes[j].data.hasChildren}}

(***************************************************************************)
(* C30.  collapseAll() replaces collapsedNodeIds, and the set of the       *)
(* active map record, with the ids of the nodes rendered before the call   *)
(* that have children and are not the hierarchy's root; an id that was     *)
(* collapsed but not rendered is no longer in the set; the view is then    *)
(* filterCollapsedNodes(flattenHierarchy(whole hierarchy), that set).      *)
(***************************************************************************)
C30_CollapseAllCollapsesRenderedParents ==
    hierarchicalData # NoData =>
        LET r == collapseAll(Store)
            view == FilteredWhole(hierarchicalData, C30_RenderedParents)
        IN  /\ C30_FlaggedParents = C30_RenderedParents
            /\ r.collapsedNodeIds = C30_RenderedParents
            /\ \A i \in 1..Len(r.maps) :
                   r.maps[i].id = r.activeMapId =>
                       SetOf(r.maps[i].collapsedNodeIds) = C30_RenderedParents
            /\ \A id \in collapsedNodeIds :
                   (\A i \in 1..Len(nodes) : nodes[i].id # id) => id \notin r.collapsedNodeIds
            /\ Unplaced(r.nodes) = Unplaced(view.nodes)
            /\ r.edges = view.edges
            /\ r.hierarchicalData = hierarchicalData

\* collapseAll has acted in a view drilled into A: A, which was rendered and
\* has a child, is the collapse set, and the whole tree is shown with A
\* collapsed
C30_Witness ==
    /\ lastOp.op = "collapseAll"
    /\ currentDrillNodeId = "A"
    /\ collapsedNodeIds = {"A"}
    /\ IdSeq(nodes) = <<"R", "A", "B">>
    /\ ActiveRecords # {}
    /\ \A i \in ActiveRecords : SetOf(maps[i].collapsedNodeIds) = {"A"}

\* C is collapsed and hidden below the collapsed A: collapseAll drops it
C30_WitnessDropped ==
    /\ collapsedNodeIds = {"A", "C"}
    /\ IdSeq(nodes) = <<"R", "A", "B">>
    /\ collapseAll(Store).collapsedNodeIds = {"A"}

\* the longest run of nested drillDown calls examined
MaxDrillDepth == 3

\* the ids drillDown accepts in the current hierarchy
C31_Targets == {id \in HierarchyIds : C12_Drillable(id)}

\* the sequences of one to MaxDrillDepth targets
C31_Runs == UNION {[1..k -> C31_Targets] : k \in 1..MaxDrillDepth}

\* the store after drillDown on ts[1], ..., ts[n]
RECURSIVE C31_DrillDowns(_, _, _)
C31_DrillDowns(s, ts, n) ==
    IF n = 0 THEN s ELSE drillDown(C31_DrillDowns(s, ts, n - 1), ts[n])

\* the store after n calls of drillUp
RECURSIVE C31_DrillUps(_, _)
C31_DrillUps(s, n) ==
    IF n = 0 THEN s ELSE drillUp(C31_DrillUps(s, n - 1))

C31_SubtreeShown(u, id) ==
    Unplaced(u.nodes) =
        Unplaced(flattenHierarchy(NodeAt(hierarchicalData, PathOfId(hierarchicalData, id)),
                                  0, Null).nodes)

C31_WholeTreeShown(u) ==
    /\ u.currentDrillNodeId = Null
    /\ u.drillStack = <<>>
    /\ Unplaced(u.nodes) = Unplaced(flattenHierarchy(hierarchicalData, 0, Null).nodes)

C31_Unwinds(ts) ==
    LET k == Len(ts)
        down == C31_DrillDowns(Store, ts, k)
        last == C31_DrillUps(down, k)
        further == drillUp(last)
    IN  /\ down.currentDrillNodeId = ts[k]
        /\ down.drillStack = SubSeq(ts, 1, k - 1)
        /\ \A j \in 1..(k - 1) :
               LET u == C31_DrillUps(down, j)
               IN  /\ u.currentDrillNodeId = ts[k - j]
                   /\ u.drillStack = SubSeq(ts, 1, k - j - 1)
                   /\ C31_SubtreeShown(u, ts[k - j])
        /\ C31_WholeTreeShown(last)
        /\ further.currentDrillNodeId = last.currentDrillNodeId
        /\ further.drillStack = last.drillStack
        /\ IdSeq(further.nodes) = IdSeq(last.nodes)

(***************************************************************************)
(* C31.  Drill navigation is last in, first out: from a view that is not   *)
(* drilled, after k successful drillDown calls on t1..tk the j-th drillUp  *)
(* (1 <= j < k) makes t(k-j) the drill target with its subtree rendered,   *)
(* the k-th drillUp shows the whole tree with currentDrillNodeId null and  *)
(* an empty stack, and one more drillUp changes neither the drill state    *)
(* nor the rendered ids.                                                   *)
(***************************************************************************)
C31_DrillIsLastInFirstOut ==
    (hierarchicalData # NoData /\ currentDrillNodeId = Null /\ drillStack = <<>>) =>
        \A ts \in C31_Runs : C31_Unwinds(ts)

\* the first drillUp after drillDown(A) and a second drillDown: A is the
\* target again, the stack is empty and A's subtree is rendered
C31_Witness ==
    /\ lastOp.op = "drillUp"
    /\ currentDrillNodeId = "A"
    /\ drillStack = <<>>
    /\ IdSeq(nodes) = <<"A", "C">>

C32_Less(p, q) == p[1] * q[2] < q[1] * p[2]

C32_AtMost(p, q) == p[1] * q[2] <= q[1] * p[2]

\* the position the layout gave the node with the id
C32_PositionOf(laid, id) ==
    laid[CHOOSE i \in 1..Len(laid) : laid[i].id = id].position

\* the children of the node id, whose sector runs from lo to hi (in turns)
\* at the given depth, and everything below them: the children in id order
\* lie at depth * RadialStep, their mid-angles are those of equal sectors
\* that follow one another from lo to hi without gap or overlap, and the
\* same holds below each child within its own sector
RECURSIVE C32_SectorsPartition(_, _, _, _, _, _)
C32_SectorsPartition(laid, es, id, lo, hi, depth) ==
    LET children == SortIds(RadialChildren(es, id))
        n == Len(children)
        half == FracDivInt(FracSub(hi, lo), 2 * n)
        mid(i) == C32_PositionOf(laid, children[i]).turn
        from(i) == FracSub(mid(i), half)
        to(i) == FracAdd(mid(i), half)
    IN  n > 0 =>
            /\ from(1) = lo
            /\ to(n) = hi
            /\ \A i \in 1..(n - 1) : to(i) = from(i + 1) /\ IdRank(children[i]) < IdRank(children[i + 1])
            /\ \A i \in 1..n :
                   /\ C32_PositionOf(laid, children[i]).r = depth * RadialStep
                   /\ C32_AtMost(lo, from(i)) /\ C32_Less(from(i), mid(i))
                   /\ C32_Less(mid(i), to(i)) /\ C32_AtMost(to(i), hi)
                   /\ C32_SectorsPartition(laid, es, children[i], from(i), to(i), depth + 1)

\* the orders in which the edges can be passed
C32_EdgeOrders(es) ==
    {[i \in 1..Len(es) |-> es[p[i]]] :
        p \in {q \in [1..Len(es) -> 1..Len(es)] : \A i, j \in 1..Len(es) : q[i] = q[j] => i = j}}

C32_UniqueNodeIds(ns) == \A i, j \in 1..Len(ns) : ns[i].id = ns[j].id => i = j

C32_WitnessChain ==
    /\ lastOp.op = "calculateRadialLayout"
    /\ IdSeq(nodes) = <<"A", "B", "C">>
    /\ EdgeSeq(edges) = <<<<"A", "B">>, <<"B", "C">>>>
    /\ lastOp.result[3].position = [engine |-> "radial", r |-> 2 * RadialStep, turn |-> <<1, 2>>]

(***************************************************************************)
(* C33.  The descendant walk of filterCollapsedNodes returns for every     *)
(* flat graph flattenHierarchy makes from a finite tree and every set of   *)
(* collapsed ids, a tree that repeats an id along an ancestor chain and    *)
(* ids that are not in the graph included.                                 *)
(***************************************************************************)
C33_DescendantWalkReturns ==
    FilterReturns(flattenHierarchy(hierarchicalData, 0, Null).edges, collapsedNodeIds)

\* the walk returns when the ids of the tree are unique, whatever is
\* collapsed, and when nothing collapsed is the source of an edge
C33_DescendantWalkReturnsOnUniqueIds ==
    LET es == flattenHierarchy(hierarchicalData, 0, Null).edges
    IN  (\/ UniqueIds(hierarchicalData)
         \/ \A id \in collapsedNodeIds : ChildrenMap(es, id) = {})
        => FilterReturns(es, collapsedNodeIds)

(***************************************************************************)
(* C34.  In every reachable state every id in collapsedNodeIds, and in the *)
(* collapsedNodeIds of the active map record, is the id of a node of the   *)
(* active hierarchy: deleteNode of a collapsed node or of its ancestor,    *)
(* createMap and switchMap leave no stale id behind.                       *)
(***************************************************************************)
C34_CollapsedIdsAreInHierarchy ==
    /\ collapsedNodeIds \subseteq HierarchyIds
    /\ \A i \in ActiveRecords : SetOf(maps[i].collapsedNodeIds) \subseteq HierarchyIds

\* deleteNode has removed a collapsed node and its id is still collapsed
C34_StaleAfterDeleteNode ==
    /\ lastOp.op = "deleteNode"
    /\ collapsedNodeIds # {}
    /\ ~(collapsedNodeIds \subseteq HierarchyIds)

\* the ids of the active hierarchy that have children
C35_Parents == {id \in HierarchyIds : C12_Drillable(id)}

(***************************************************************************)
(* C35.  In every reachable state currentDrillNodeId, when not null, and   *)
(* every id in drillStack is the id of a node with children in the active  *)
(* hierarchy, so that drillUp re-drills into an existing node or returns   *)
(* to the whole tree; also after deleteNode of a drill target or a stack   *)
(* entry and after switchMap, createMap and deleteMap.                     *)
(***************************************************************************)
C35_DrillStateIsInHierarchy ==
    /\ currentDrillNodeId # Null => currentDrillNodeId \in C35_Parents
    /\ \A i \in 1..Len(drillStack) : drillStack[i] \in C35_Parents

\* the node on top of the stack is gone: the next drillUp raises the alert
\* of drillDown and leaves the view as it is
C35_DrillUpWouldFail ==
    /\ drillStack # <<>>
    /\ drillUpAlert(Store) = "Selected node has no children to drill into"
    /\ IdSeq(drillUp(Store).nodes) = IdSeq(nodes)

(***************************************************************************)
(* C36.  In every reachable state selectedNodeId is null or the id of a    *)
(* rendered node: it never names a node removed by deleteNode (a           *)
(* descendant of the deleted node included) or hidden by a collapse, a     *)
(* drill or a switch of maps.                                              *)
(***************************************************************************)
C36_SelectionIsRendered ==
    selectedNodeId # Null => selectedNodeId \in RenderedIds

\* deleteNode of an ancestor of the selected node would leave the selection
\* on a node that is gone (the side panel deletes the selected node only)
C36_DeleteOfAncestorKeepsSelection ==
    /\ selectedNodeId # Null
    /\ \E nodeId \in HierarchyIds :
           LET r == deleteNode(Store, nodeId)
           IN  /\ r.selectedNodeId = selectedNodeId
               /\ r.selectedNodeId \notin IdsOf(r.hierarchicalData)

\* a collapse has hidden the selected node
C36_SelectionHidden ==
    /\ lastOp.op = "toggleNodeExpansion"
    /\ selectedNodeId \in HierarchyIds \ RenderedIds

\* the rendered graph ns, es is a tree
C37_IsTree(ns, es) ==
    /\ Cardinality({i \in 1..Len(ns) : ns[i].data.depth = 0}) = 1
    /\ \A k \in 1..Len(es) :
           /\ \E i \in 1..Len(ns) : ns[i].id = es[k].source
           /\ \E i \in 1..Len(ns) : ns[i].id = es[k].target
    /\ \A i \in 1..Len(ns) :
           ns[i].data.depth # 0 =>
               Cardinality({k \in 1..Len(es) : es[k].target = ns[i].id}) = 1
    /\ Len(es) = Len(ns) - 1

(***************************************************************************)
(* C37.  After any sequence of store operations (setNodes, setEdges,       *)
(* onNodesChange and onEdgesChange aside) on a hierarchy with unique ids   *)
(* the rendered graph is a tree: one rendered node has depth 0, every      *)
(* rendered edge has both endpoints among the rendered nodes, every other  *)
(* rendered node is the target of exactly one rendered edge, and there is  *)
(* one edge less than there are nodes.                                     *)
(***************************************************************************)
C37_RenderedGraphIsTree ==
    (hierarchicalData # NoData /\ UniqueIds(hierarchicalData)) => C37_IsTree(nodes, edges)

\* a node was added below C and A is collapsed: R, A and B are rendered,
\* with the two edges out of R
C37_Witness ==
    /\ lastOp = [op |-> "toggleNodeExpansion", nodeId |-> "A"]
    /\ hierarchicalData # NoData
    /\ UniqueIds(hierarchicalData)
    /\ TreeSize(hierarchicalData) = 5
    /\ IdSeq(nodes) = <<"R", "A", "B">>
    /\ EdgeSeq(edges) = <<<<"R", "A">>, <<"R", "B">>>>
    /\ C37_IsTree(nodes, edges)

(***************************************************************************)
(* C38.  After collapseAll(), from any reachable state (one with the root  *)
(* in collapsedNodeIds and a drilled one included), every rendered node    *)
(* has depth at most 1 in the whole tree: no grandchild of the root, or    *)
(* deeper node, is visible.                                                *)
(***************************************************************************)
C38_CollapseAllShowsTwoLevels ==
    hierarchicalData # NoData =>
        LET r == collapseAll(Store)
        IN  \A i \in 1..Len(r.nodes) : r.nodes[i].data.depth <= 1

\* the claim holds when every child of the root that has children is
\* rendered before the call
C38_CollapseAllShowsTwoLevelsOfShownTree ==
    (/\ hierarchicalData # NoData
     /\ \A k \in 1..Len(Children(hierarchicalData)) :
            Children(Children(hierarchicalData)[k]) # <<>>
                => Children(hierarchicalData)[k].id \in RenderedIds)
    => LET r == collapseAll(Store)
       IN  \A i \in 1..Len(r.nodes) : r.nodes[i].data.depth <= 1

\* collapseAll has expanded the tree: the root was collapsed, no other node
\* was rendered, and the grandchild C is now shown
C38_CollapseAllExpands ==
    /\ lastOp.op = "collapseAll"
    /\ collapsedNodeIds = {}
    /\ IdSeq(nodes) = <<"R", "A", "C", "B">>

\* the operations on the active map
C39_Operations ==
    {"addNode", "deleteNode", "updateNodeLabel", "updateNodeSummary", "updateNodeDetails",
     "toggleNodeExpansion", "expandAll", "collapseAll", "setLayoutMode"}

\* the record new is the record old in the four fields
C39_SameRecord(old, new) ==
    /\ new.hierarchicalData = old.hierarchicalData
    /\ new.collapsedNodeIds = old.collapsedNodeIds
    /\ new.layoutMode = old.layoutMode
    /\ new.name = old.name

(***************************************************************************)
(* C39.  An operation on the active map (addNode, deleteNode, an update of *)
(* label, summary or details, toggleNodeExpansion, expandAll, collapseAll, *)
(* setLayoutMode) leaves hierarchicalData, collapsedNodeIds, layoutMode    *)
(* and name of every map record that is not the active one as they were;   *)
(* deleteNode, which assigns to child nodes in place, and maps created     *)
(* from the same template object included.                                 *)
(***************************************************************************)
C39_OtherRecordsUnchanged ==
    [][lastOp'.op \in C39_Operations =>
          /\ Len(maps') = Len(maps)
          /\ \A i \in 1..Len(maps) :
                 maps[i].id # activeMapId => C39_SameRecord(maps[i], maps'[i])]_vars

\* what deleteNode returns is the same tree either way: the tree read from
\* the copied root after the assignments is removeNodeFromHierarchy of the
\* store's hierarchy as a value
C39_InPlaceResultIsValueResult ==
    heap.root # 0 =>
        \A nodeId \in NodeIdInputs :
            LET copy == Len(heap.objs) + 1
                objs == removeNodeFromHierarchyInPlace(Append(heap.objs, heap.objs[heap.root]),
                                                       copy, nodeId)
            IN  Deref(objs, copy) = removeNodeFromHierarchy(hierarchicalData, nodeId)

\* two maps were created from the object initialData and C was deleted in
\* the second: the first map's record has lost C as well
C39_OtherRecordChanged ==
    /\ lastOp = [op |-> "deleteNode", nodeId |-> "C"]
    /\ Len(maps) = 2
    /\ activeMapId = maps[2].id
    /\ "C" \notin IdsOf(maps[1].hierarchicalData)

\* with hierarchies passed as values (a new object for every call) the
\* records of the other maps are as they were after each of the operations
C39_OtherRecordsUnchangedByValue ==
    \A nodeId \in NodeIdInputs, text \in TextInputs, mode \in LayoutModes,
       newNodeData \in NewNodeInputs :
        \A r \in {addNode(Store, now + 1, nodeId, newNodeData), deleteNode(Store, nodeId),
                  updateNodeLabel(Store, nodeId, text), updateNodeSummary(Store, nodeId, text),
                  updateNodeDetails(Store, nodeId, text), toggleNodeExpansion(Store, nodeId),
                  expandAll(Store), collapseAll(Store), setLayoutMode(Store, mode)} :
            /\ Len(r.maps) = Len(maps)
            /\ \A i \in 1..Len(maps) : maps[i].id # activeMapId => r.maps[i] = maps[i]

\* the store after the page was loaded again from the saved value
C40_Reloaded(persisted) == homeEffect(rehydrate(persisted), now + 1)

\* the record of the active map in the store r
C40_ActiveRecord(r) ==
    LET Is(m) == m.id = r.activeMapId
    IN  SelectSeq(r.maps, Is)[1]

\* the view of r is the one its active record describes
C40_ShowsRecord(r) ==
    LET rec == C40_ActiveRecord(r)
        view == FilteredWhole(rec.hierarchicalData, SetOf(rec.collapsedNodeIds))
    IN  /\ Unplaced(r.nodes) = Unplaced(view.nodes)
        /\ r.edges = view.edges
        /\ r.layoutMode = rec.layoutMode

(***************************************************************************)
(* C40.  After the page is loaded again with a saved active map, the first *)
(* rendered view is the one the saved record describes: nodes and edges    *)
(* are filterCollapsedNodes(flattenHierarchy(record's hierarchicalData),   *)
(* record's collapsedNodeIds) and the working layoutMode is the record's,  *)
(* so that the nodes visible before the reload are visible after it.       *)
(***************************************************************************)
C40_ReloadShowsSavedView ==
    ActiveRecords # {} =>
        \A persisted \in partialize(Store) : C40_ShowsRecord(C40_Reloaded(persisted))

\* the reload does show the record's view when the record collapses nothing
\* that has children and its layout mode is the initial one
C40_ReloadShowsUncollapsedTreeView ==
    (/\ ActiveRecords # {}
     /\ \A i \in ActiveRecords :
            /\ maps[i].layoutMode = "tree"
            /\ FilteredWhole(maps[i].hierarchicalData, SetOf(maps[i].collapsedNodeIds)).nodes
                   = flattenHierarchy(maps[i].hierarchicalData, 0, Null).nodes)
    => \A persisted \in partialize(Store) : C40_ShowsRecord(C40_Reloaded(persisted))

\* a map saved in radial mode comes back in tree mode, its record still
\* radial
C40_ReloadForgetsLayoutMode ==
    /\ ActiveRecords # {}
    /\ layoutMode = "radial"
    /\ collapsedNodeIds = {}
    /\ \A persisted \in partialize(Store) :
           LET r == C40_Reloaded(persisted)
           IN  r.layoutMode = "tree" /\ C40_ActiveRecord(r).layoutMode = "radial"

====
